---- MODULE Spec2Model ----
(***************************************************************************)
(* A model of the NES core of src/v1.1/nes_emulator_complete.py: the       *)
(* mapper-0 CPU bus (NES.cpu_read / NES.cpu_write), the controller latch,  *)
(* OAM DMA, the PPU address space (PPU.read / PPU.write), the 6502         *)
(* interpreter (CPU6502.step) and the frame driver (NES.frame /            *)
(* NES.run_cpu_cycles).                                                    *)
(*                                                                         *)
(* Byte arrays are kept sparse: a function from the indices that hold a    *)
(* non-zero byte to that byte; every other index reads 0, as in a fresh    *)
(* bytearray(n).                                                           *)
(***************************************************************************)
EXTENDS Integers, Sequences, FiniteSets, TLC

VARIABLES
    rom,                \* INESRom: [prg_rom, prg_banks, chr_banks, mapper, mirroring]
    ram,                \* NES.ram, 2 KiB work RAM (sparse)
    sram,               \* NES.sram, 8 KiB cartridge RAM (sparse)
    controller_state,   \* NES.controller_state, <<pad 1, pad 2>>
    controller_shift,   \* NES.controller_shift, <<pad 1, pad 2>>
    controller_strobe,  \* NES.controller_strobe
    nmi_pending,        \* NES.nmi_pending
    A, X, Y, PC, SP, P, \* CPU6502 registers
    cpu_cycles,         \* CPU6502.cycles
    chr, vram, palette, \* PPU.chr, PPU.vram, PPU.palette (sparse)
    oam,                \* PPU.oam (sparse)
    pcs,                \* where the host is: "idle" (between calls), "loop" (inside run_cpu_cycles),
                        \* "none" (no NES constructed yet) or "failed" (NES(rom_path) raised)
    cycles,             \* the local `cycles` of run_cpu_cycles
    callNo,             \* number of frame() calls begun since construction
    instrs,             \* instructions executed by the current frame() call
    nmiServed,          \* NMI sequences performed by the current frame() call
    nmiAt,              \* value of instrs when the current call performed its NMI sequence (-1: none)
    ret,                \* value returned by the last bus / PPU read or by the last step()
    lastOp,             \* the last operation applied: [op, addr, val]
    proto,              \* controller protocol history: [phase, b, n]
    trail               \* the instructions executed by direct step() calls: <<[pc, sp, op, c]>>

vars == <<rom, ram, sram, controller_state, controller_shift, controller_strobe,
          nmi_pending, A, X, Y, PC, SP, P, cpu_cycles, chr, vram, palette, oam,
          pcs, cycles, callNo, instrs, nmiServed, nmiAt, ret, lastOp, proto, trail>>

----------------------------------------------------------------------------
(* Bounds of the model *)

MaxFrames == 2      \* frame() calls per construction
MaxReads == 10      \* controller-port reads counted after a latch
MaxSteps == 8       \* direct step() calls per construction
MaxIoReads == 2     \* controller-port reads per latch in the runs of the I/O page

----------------------------------------------------------------------------
(* Python integer operators on naturals *)

Bit(x, k) == (x \div (2^k)) % 2

Shr(x, n) == x \div (2^n)

RECURSIVE BitAnd(_, _)
BitAnd(a, b) ==
    IF a = 0 \/ b = 0 THEN 0
    ELSE (a % 2) * (b % 2) + 2 * BitAnd(a \div 2, b \div 2)

RECURSIVE BitOr(_, _)
BitOr(a, b) ==
    IF a = 0 THEN b
    ELSE IF b = 0 THEN a
    ELSE (IF a % 2 = 1 \/ b % 2 = 1 THEN 1 ELSE 0) + 2 * BitOr(a \div 2, b \div 2)

RECURSIVE BitXor(_, _)
BitXor(a, b) ==
    IF a = 0 THEN b
    ELSE IF b = 0 THEN a
    ELSE ((a + b) % 2) + 2 * BitXor(a \div 2, b \div 2)

\* ~x under a following mask that fits 16 bits
BitNot16(x) == 65535 - (x % 65536)

\* a bytearray with default 0: store v at index k
Store(f, k, v) ==
    IF v = 0
    THEN [x \in DOMAIN f \ {k} |-> f[x]]
    ELSE [x \in DOMAIN f \cup {k} |-> IF x = k THEN v ELSE f[x]]

Load(f, k) == IF k \in DOMAIN f THEN f[k] ELSE 0

Empty == [x \in {} |-> 0]

\* sequencing: the value e, then F of it
Bind(e, F(_)) == F(e)

----------------------------------------------------------------------------
(* Cartridge images.  PRG bytes are given at their offsets into prg_rom;   *)
(* every other byte of the image is PrgFill.  CHR ROM bytes likewise.      *)

PrgFill == 234              \* 0xEA

At(off, bytes) == [i \in off..(off + Len(bytes) - 1) |-> bytes[i - off + 1]]

\* the six vector bytes $FFFA..$FFFF of an image of `banks` 16 KiB units
Vectors(banks, nmi, reset, irq) ==
    At(banks * 16384 - 6,
       <<nmi % 256, nmi \div 256, reset % 256, reset \div 256, irq % 256, irq \div 256>>)

\* "store": LDA #$42; STA $0200; BRK.  IRQ handler spins, NMI handler is RTI.
PrgStore ==
    At(0, <<169, 66, 141, 0, 2, 0>>)            \* $8000 A9 42 8D 00 02 00
    @@ At(64, <<76, 64, 128>>)                  \* $8040 JMP $8040
    @@ At(80, <<64>>)                           \* $8050 RTI
    @@ Vectors(1, 32848, 32768, 32832)          \* NMI $8050, RESET $8000, IRQ $8040

\* "rti": builds a frame on the stack and RTIs through it, then spins.
PrgRti ==
    At(0, <<169, 128, 72, 169, 16, 72, 169, 0, 72, 64>>)
                                                \* LDA #$80; PHA; LDA #$10; PHA; LDA #$00; PHA; RTI
    @@ At(16, <<76, 16, 128>>)                  \* $8010 JMP $8010
    @@ At(48, <<232, 76, 49, 128>>)             \* $8030 INX; JMP $8031
    @@ At(64, <<76, 64, 128>>)                  \* $8040 JMP $8040
    @@ Vectors(2, 32816, 32768, 32832)          \* NMI $8030, RESET $8000, IRQ $8040

\* "jmpind": JMP ($10FF) through work RAM, then JMP ($0200), then JMP ($80FF) through ROM.
PrgJmpInd ==
    At(0, <<169, 52, 141, 255, 0,               \* LDA #$34; STA $00FF
            169, 128, 141, 0, 0,                \* LDA #$80; STA $0000
            169, 144, 141, 0, 1,                \* LDA #$90; STA $0100
            108, 255, 16>>)                     \* JMP ($10FF)
    @@ At(52, <<169, 112, 141, 0, 2,            \* $8034 LDA #$70; STA $0200
                169, 128, 141, 1, 2,            \*       LDA #$80; STA $0201
                108, 0, 2>>)                    \*       JMP ($0200)
    @@ At(112, <<108, 255, 128>>)               \* $8070 JMP ($80FF)
    @@ At(255, <<96>>)                          \* $80FF: low byte $60 (high byte from $8000 = $A9)
    @@ At(10592, <<108, 100, 169>>)             \* $A960 JMP ($A964)
    @@ At(10596, <<96, 169>>)                   \* $A964: $A960
    @@ At(4148, <<76, 52, 144>>)                \* $9034 JMP $9034
    @@ At(128, <<64>>)                          \* $8080 RTI
    @@ Vectors(1, 32896, 49152, 32896)          \* NMI $8080, RESET $C000 (mirror of $8000), IRQ $8080

\* "pad": strobes and reads the controller ports, runs OAM DMA, then polls $4016.
PrgPad ==
    At(0, <<169, 1, 141, 22, 64,                \* LDA #1; STA $4016
            173, 22, 64,                        \* LDA $4016
            169, 0, 141, 22, 64,                \* LDA #0; STA $4016
            173, 22, 64, 173, 23, 64,           \* LDA $4016; LDA $4017
            169, 64, 141, 20, 64,               \* LDA #$40; STA $4014
            169, 2, 141, 20, 64,                \* LDA #$02; STA $4014
            173, 22, 64,                        \* $801D LDA $4016
            108, 35, 128,                       \* $8020 JMP ($8023)
            29, 128>>)                          \* $8023: $801D
    @@ At(64, <<120, 64>>)                      \* $8040 SEI; RTI
    @@ Vectors(2, 32832, 32768, 32832)          \* NMI $8040, RESET $8000, IRQ $8040

\* "brk": four NOPs, then a BRK that is its own IRQ and NMI handler (7 cycles a time).
PrgBrk ==
    At(0, <<234, 234, 234, 234, 0>>)            \* $8000 NOP; NOP; NOP; NOP; $8004 BRK
    @@ Vectors(1, 32772, 32768, 32772)          \* NMI $8004, RESET $8000, IRQ $8004

\* CHR ROM of a cartridge with chr_banks > 0: tile 1 has plane 0 all $FF.
ChrImage == At(16, <<255, 255, 255, 255, 255, 255, 255, 255>>)

\* INESRom._load: the fields the core reads (prg_rom holds the bytes that are not PrgFill)
Roms ==
    { [prg_rom |-> PrgStore,  prg_banks |-> 1, chr_banks |-> 1, mapper |-> 0, mirroring |-> "horizontal"],
      [prg_rom |-> PrgRti,    prg_banks |-> 2, chr_banks |-> 0, mapper |-> 0, mirroring |-> "vertical"],
      [prg_rom |-> PrgJmpInd, prg_banks |-> 1, chr_banks |-> 0, mapper |-> 0, mirroring |-> "vertical"],
      [prg_rom |-> PrgPad,    prg_banks |-> 2, chr_banks |-> 1, mapper |-> 0, mirroring |-> "horizontal"],
      [prg_rom |-> PrgBrk,    prg_banks |-> 1, chr_banks |-> 0, mapper |-> 0, mirroring |-> "horizontal"] }

\* rom.prg_rom[offset]
prg_rom(r, offset) ==
    IF offset \in DOMAIN r.prg_rom THEN r.prg_rom[offset] ELSE PrgFill

----------------------------------------------------------------------------
(* The machine as one value, so that reads and writes can be sequenced *)

Machine ==
    [rom |-> rom, ram |-> ram, sram |-> sram,
     controller_state |-> controller_state, controller_shift |-> controller_shift,
     controller_strobe |-> controller_strobe,
     A |-> A, X |-> X, Y |-> Y, PC |-> PC, SP |-> SP, P |-> P,
     cycles |-> cpu_cycles, oam |-> oam]

\* cpu_read_port that also drops the strobe
cpu_read_port_unlatch(m, idx) ==
    [v |-> BitOr(BitAnd(m.controller_shift[idx], 1), 64),
     m |-> [m EXCEPT !.controller_shift[idx] = Shr(@, 1), !.controller_strobe = 0]]

\* NES.cpu_read: [v |-> the byte returned, m |-> the machine after the read]
cpu_read_port(m, idx) ==
    [v |-> BitOr(BitAnd(m.controller_shift[idx], 1), 64),
     m |-> [m EXCEPT !.controller_shift[idx] = Shr(@, 1)]]

prg_read(m, addr) ==
    IF m.rom.prg_banks = 1
    THEN prg_rom(m.rom, (addr - 32768) % 16384)
    ELSE prg_rom(m.rom, addr - 32768)

cpu_read_at(m, addr) ==
    IF addr <= 8191 THEN [v |-> Load(m.ram, addr % 2048), m |-> m]
    ELSE IF addr <= 16383 THEN [v |-> 0, m |-> m]
    ELSE IF addr >= 16384 /\ addr <= 16415 THEN
        IF addr = 16406 THEN cpu_read_port(m, 1)
        ELSE IF addr = 16407 THEN cpu_read_port(m, 2)
        ELSE [v |-> 0, m |-> m]
    ELSE IF addr >= 24576 /\ addr <= 32767 THEN [v |-> Load(m.sram, addr - 24576), m |-> m]
    ELSE IF addr >= 32768 THEN [v |-> prg_read(m, addr), m |-> m]
    ELSE [v |-> 0, m |-> m]

cpu_read(m, a) == cpu_read_at(m, a % 65536)

\* the OAM DMA loop of NES.cpu_write, iterations lo..hi-1 in order:
\* [vals |-> the bytes read, m |-> the machine after the reads]
RECURSIVE dma_reads(_, _, _, _)
dma_reads(m, base, lo, hi) ==
    IF hi - lo = 1
    THEN Bind(cpu_read(m, base + lo), LAMBDA r : [vals |-> <<r.v>>, m |-> r.m])
    ELSE Bind(dma_reads(m, base, lo, (lo + hi) \div 2), LAMBDA first :
         Bind(dma_reads(first.m, base, (lo + hi) \div 2, hi), LAMBDA rest :
         [vals |-> first.vals \o rest.vals, m |-> rest.m]))

\* oam_dma with the source off by one byte
oam_dma_off(m, base) ==
    Bind(dma_reads(m, base + 1, 0, 256), LAMBDA d :
    [d.m EXCEPT !.oam = [i \in {j \in 0..255 : d.vals[j + 1] # 0} |-> d.vals[i + 1]]])

\* for i in range(256): self.ppu.oam[i] = self.cpu_read(base + i)
oam_dma(m, base) ==
    Bind(dma_reads(m, base, 0, 256), LAMBDA d :
    [d.m EXCEPT !.oam = [i \in {j \in 0..255 : d.vals[j + 1] # 0} |-> d.vals[i + 1]]])

\* NES.cpu_write: the machine after the write
cpu_write_4016(m, strobe) ==
    IF strobe # 0
    THEN [m EXCEPT !.controller_strobe = strobe,
                   !.controller_shift = <<m.controller_state[1], m.controller_state[2]>>]
    ELSE [m EXCEPT !.controller_strobe = strobe]

\* cpu_write_at with work RAM indexed by the unmasked address
cpu_write_at_nomirror(m, addr, val) ==
    IF addr <= 8191 THEN [m EXCEPT !.ram = Store(@, addr, val)]
    ELSE IF addr <= 16383 THEN m
    ELSE IF addr >= 16384 /\ addr <= 16415 THEN
        IF addr = 16404 THEN oam_dma(m, val * 256)
        ELSE IF addr = 16406 THEN cpu_write_4016(m, BitAnd(val, 1))
        ELSE m
    ELSE IF addr >= 24576 /\ addr <= 32767 THEN [m EXCEPT !.sram = Store(@, addr - 24576, val)]
    ELSE m

cpu_write_at(m, addr, val) ==
    IF addr <= 8191 THEN [m EXCEPT !.ram = Store(@, addr % 2048, val)]
    ELSE IF addr <= 16383 THEN m
    ELSE IF addr >= 16384 /\ addr <= 16415 THEN
        IF addr = 16404 THEN oam_dma(m, val * 256)
        ELSE IF addr = 16406 THEN cpu_write_4016(m, BitAnd(val, 1))
        ELSE m
    ELSE IF addr >= 24576 /\ addr <= 32767 THEN [m EXCEPT !.sram = Store(@, addr - 24576, val)]
    ELSE m

cpu_write(m, a, value) == cpu_write_at(m, a % 65536, value % 256)

----------------------------------------------------------------------------
(* CPU6502 *)

FLAG_N == 128
FLAG_V == 64
FLAG_B == 16
FLAG_I == 4
FLAG_Z == 2
FLAG_C == 1

\* CPU6502.set_flag / get_flag, on the value of P
set_flag(p, mask, value) ==
    IF value THEN BitOr(p, mask) ELSE BitAnd(p, BitAnd(BitNot16(mask), 255))

get_flag(p, mask) == BitAnd(p, mask) # 0

update_zn(p, val) ==
    set_flag(set_flag(p, FLAG_Z, BitAnd(val, 255) = 0), FLAG_N, BitAnd(val, 128) # 0)

read_addr(m, addr) == cpu_read(m, addr % 65536)

write_addr(m, addr, val) == cpu_write(m, addr % 65536, val % 256)

\* push with the byte stored one above the stack pointer
push_above(m, val) ==
    [cpu_write(m, 256 + ((m.SP + 1) % 256), val % 256) EXCEPT !.SP = (m.SP - 1) % 256]

push(m, val) ==
    [cpu_write(m, 256 + m.SP, val % 256) EXCEPT !.SP = (m.SP - 1) % 256]

\* push(a) then push(b)
push2(m, a, b) == push(push(m, a), b)

pop(m) == cpu_read([m EXCEPT !.SP = (m.SP + 1) % 256], 256 + ((m.SP + 1) % 256))

fetch_byte(m) ==
    Bind(cpu_read(m, m.PC), LAMBDA r :
    [v |-> r.v, m |-> [r.m EXCEPT !.PC = (m.PC + 1) % 65536]])

fetch_word(m) ==
    Bind(fetch_byte(m), LAMBDA lo :
    Bind(fetch_byte(lo.m), LAMBDA hi :
    [v |-> BitOr(lo.v, hi.v * 256), m |-> hi.m]))

\* the word (hi << 8) | lo read at the addresses alo, ahi, in that order
read_word(m, alo, ahi) ==
    Bind(read_addr(m, alo), LAMBDA lo :
    Bind(read_addr(lo.m, ahi), LAMBDA hi :
    [v |-> BitOr(hi.v * 256, lo.v), m |-> hi.m]))

\* reset through the NMI vector $FFFA/$FFFB
reset_nmi_vector(m) ==
    Bind(read_word(m, 65530, 65531), LAMBDA w :
    [w.m EXCEPT !.PC = w.v, !.SP = 253, !.P = 36])

\* CPU6502.reset
reset(m) ==
    Bind(read_word(m, 65532, 65533), LAMBDA w :
    [w.m EXCEPT !.PC = w.v, !.SP = 253, !.P = 36])

\* Addressing modes: [v |-> the effective address, m |-> the machine after the operand fetch]
am_immediate(m) == [v |-> m.PC, m |-> [m EXCEPT !.PC = (m.PC + 1) % 65536]]

am_zeropage(m) == fetch_byte(m)

am_zeropage_x(m) ==
    Bind(fetch_byte(m), LAMBDA b : [v |-> (b.v + m.X) % 256, m |-> b.m])

am_absolute(m) == fetch_word(m)

am_absolute_x(m) ==
    Bind(fetch_word(m), LAMBDA w : [v |-> (w.v + m.X) % 65536, m |-> w.m])

am_absolute_y(m) ==
    Bind(fetch_word(m), LAMBDA w : [v |-> (w.v + m.Y) % 65536, m |-> w.m])

am_indirect(m) ==
    Bind(fetch_word(m), LAMBDA ptr :
    IF BitAnd(ptr.v, 255) = 255
    THEN read_word(ptr.m, ptr.v, BitAnd(ptr.v, 65280))
    ELSE read_word(ptr.m, ptr.v, ptr.v + 1))

am_indirect_x(m) ==
    Bind(fetch_byte(m), LAMBDA b :
    read_word(b.m, (b.v + m.X) % 256, (((b.v + m.X) % 256) + 1) % 256))

am_indirect_y(m) ==
    Bind(fetch_byte(m), LAMBDA zp :
    Bind(read_word(zp.m, zp.v, (zp.v + 1) % 256), LAMBDA base :
    [v |-> (base.v + m.Y) % 65536, m |-> base.m]))

am_relative(m) ==
    Bind(fetch_byte(m), LAMBDA b :
    IF b.v < 128
    THEN [v |-> (b.m.PC + b.v) % 65536, m |-> b.m]
    ELSE [v |-> (b.m.PC + b.v - 256) % 65536, m |-> b.m])

\* Retire for an instruction that costs nothing
Retire_zero(m, c) == [c |-> 0, m |-> m]

\* Retire with the cycle counter charged twice
Retire_twice(m, c) == [c |-> c, m |-> [m EXCEPT !.cycles = @ + 2 * c]]

\* Retire with the cycle counter left alone
Retire_nocount(m, c) == [c |-> c, m |-> m]

\* "self.cycles += c; return c"
Retire(m, c) == [c |-> c, m |-> [m EXCEPT !.cycles = @ + c]]

\* LDA through the effective address am.v
op_lda(am, c) ==
    Bind(read_addr(am.m, am.v), LAMBDA r :
    Retire([r.m EXCEPT !.A = r.v, !.P = update_zn(@, r.v)], c))

\* STA through the effective address am.v
op_sta(am, c) == Retire(write_addr(am.m, am.v, am.m.A), c)

\* adc_cv with V copied from the carry out
adc_cv_carry(p, a, val, result) ==
    set_flag(set_flag(p, FLAG_C, result > 255), FLAG_V, result > 255)

\* the flags C and V of ADC, from A, the operand and the 9-bit sum
adc_cv(p, a, val, result) ==
    set_flag(set_flag(p, FLAG_C, result > 255), FLAG_V,
             BitAnd(BitAnd(BitNot16(BitXor(a, val)), BitXor(a, result)), 128) # 0)

\* ADC of the byte val
op_adc(m, val, c) ==
    Bind(m.A + val + (IF get_flag(m.P, FLAG_C) THEN 1 ELSE 0), LAMBDA result :
    Retire([m EXCEPT !.A = BitAnd(result, 255),
                     !.P = update_zn(adc_cv(@, m.A, val, result), BitAnd(result, 255))], c))

\* a branch: taken costs 3, not taken 2
op_branch(m, taken) ==
    Bind(am_relative(m), LAMBDA am :
    IF taken THEN Retire([am.m EXCEPT !.PC = am.v], 3) ELSE Retire(am.m, 2))

op_jsr(m) ==
    Bind(fetch_word(m), LAMBDA w :
    Bind((w.m.PC - 1) % 65536, LAMBDA retaddr :
    Retire([push2(w.m, BitAnd(Shr(retaddr, 8), 255), BitAnd(retaddr, 255))
              EXCEPT !.PC = w.v], 6)))

\* the word (hi << 8) | lo popped low byte first
pop_word(m) ==
    Bind(pop(m), LAMBDA lo :
    Bind(pop(lo.m), LAMBDA hi :
    [v |-> BitOr(hi.v * 256, lo.v), m |-> hi.m]))

op_rts(m) ==
    Bind(pop_word(m), LAMBDA w : Retire([w.m EXCEPT !.PC = w.v + 1], 6))

\* set I, then load PC from the vector
vector_jump(m, vector) ==
    Bind(read_word([m EXCEPT !.P = set_flag(@, FLAG_I, TRUE)], vector, vector + 1), LAMBDA w :
    [w.m EXCEPT !.PC = w.v])

op_brk(m) ==
    Bind(fetch_byte(m), LAMBDA pad :
    Bind(push2(pad.m, BitAnd(Shr(pad.m.PC, 8), 255), BitAnd(pad.m.PC, 255)), LAMBDA m2 :
    Retire(vector_jump(push(m2, BitOr(m2.P, 16)), 65534), 7)))

op_rti(m) ==
    Bind(pop(m), LAMBDA p :
    Bind(pop_word([p.m EXCEPT !.P = BitAnd(BitAnd(p.v, BitNot16(16)), 255)]), LAMBDA w :
    Retire([w.m EXCEPT !.PC = w.v], 6)))

op_pla(m) ==
    Bind(pop(m), LAMBDA r :
    Retire([r.m EXCEPT !.A = r.v, !.P = update_zn(@, r.v)], 4))

\* a register transfer / increment: register reg takes val, Z and N follow
op_reg(m, reg, val) ==
    Retire([m EXCEPT ![reg] = val, !.P = update_zn(@, val)], 2)

op_flag(m, mask, value) == Retire([m EXCEPT !.P = set_flag(@, mask, value)], 2)

\* JMP (ptr) with the high byte always read from ptr + 1
op_jmp_indirect_nowrap(m) ==
    Bind(fetch_word(m), LAMBDA ptr :
    Bind(read_word(ptr.m, ptr.v, ptr.v + 1), LAMBDA w :
    Retire([w.m EXCEPT !.PC = w.v], 5)))

\* opcode 0x6C, JMP (ptr): a pointer at the end of a page takes its high byte
\* from the start of the same page
op_jmp_indirect(m) ==
    Bind(fetch_word(m), LAMBDA ptr :
    Bind(IF BitAnd(ptr.v, 255) = 255
         THEN read_word(ptr.m, ptr.v, BitAnd(ptr.v, 65280))
         ELSE read_word(ptr.m, ptr.v, ptr.v + 1), LAMBDA w :
    Retire([w.m EXCEPT !.PC = w.v], 5)))

\* the fallback with one operand byte skipped
op_unknown_operand(m) == Retire([m EXCEPT !.PC = (@ + 1) % 65536], 2)

\* "Default fallback: treat as NOP": an opcode that no test of step() matches
op_unknown(m) == Retire(m, 2)

\* the opcodes step() tests for
Decoded ==
    {234,
     169, 165, 181, 173, 189, 185, 161, 177,
     133, 141, 149, 157, 153, 129, 145,
     170, 168, 138, 152, 232, 200, 202, 136,
     105, 101,
     208, 240, 144, 176,
     76, 108, 32, 96, 0, 64,
     24, 56, 88, 120, 72, 104}

\* CPU6502.step after the opcode fetch
execute(opcode, m) ==
    CASE opcode = 234 -> Retire(m, 2)
      [] opcode = 169 -> op_lda(am_immediate(m), 2)
      [] opcode = 165 -> op_lda(am_zeropage(m), 3)
      [] opcode = 181 -> op_lda(am_zeropage_x(m), 4)
      [] opcode = 173 -> op_lda(am_absolute(m), 4)
      [] opcode = 189 -> op_lda(am_absolute_x(m), 4)
      [] opcode = 185 -> op_lda(am_absolute_y(m), 4)
      [] opcode = 161 -> op_lda(am_indirect_x(m), 6)
      [] opcode = 177 -> op_lda(am_indirect_y(m), 5)
      [] opcode = 133 -> op_sta(am_zeropage(m), 3)
      [] opcode = 141 -> op_sta(am_absolute(m), 4)
      [] opcode = 149 -> op_sta(am_zeropage_x(m), 4)
      [] opcode = 157 -> op_sta(am_absolute_x(m), 5)
      [] opcode = 153 -> op_sta(am_absolute_y(m), 5)
      [] opcode = 129 -> op_sta(am_indirect_x(m), 6)
      [] opcode = 145 -> op_sta(am_indirect_y(m), 6)
      [] opcode = 170 -> op_reg(m, "X", m.A)
      [] opcode = 168 -> op_reg(m, "Y", m.A)
      [] opcode = 138 -> op_reg(m, "A", m.X)
      [] opcode = 152 -> op_reg(m, "A", m.Y)
      [] opcode = 232 -> op_reg(m, "X", (m.X + 1) % 256)
      [] opcode = 200 -> op_reg(m, "Y", (m.Y + 1) % 256)
      [] opcode = 202 -> op_reg(m, "X", (m.X - 1) % 256)
      [] opcode = 136 -> op_reg(m, "Y", (m.Y - 1) % 256)
      [] opcode = 105 -> Bind(fetch_byte(m), LAMBDA b : op_adc(b.m, b.v, 2))
      [] opcode = 101 -> Bind(am_zeropage(m), LAMBDA am :
                         Bind(read_addr(am.m, am.v), LAMBDA r : op_adc(r.m, r.v, 3)))
      [] opcode = 208 -> op_branch(m, ~get_flag(m.P, FLAG_Z))
      [] opcode = 240 -> op_branch(m, get_flag(m.P, FLAG_Z))
      [] opcode = 144 -> op_branch(m, ~get_flag(m.P, FLAG_C))
      [] opcode = 176 -> op_branch(m, get_flag(m.P, FLAG_C))
      [] opcode = 76 -> Bind(fetch_word(m), LAMBDA w : Retire([w.m EXCEPT !.PC = w.v], 3))
      [] opcode = 108 -> op_jmp_indirect(m)
      [] opcode = 32 -> op_jsr(m)
      [] opcode = 96 -> op_rts(m)
      [] opcode = 0 -> op_brk(m)
      [] opcode = 64 -> op_rti(m)
      [] opcode = 24 -> op_flag(m, FLAG_C, FALSE)
      [] opcode = 56 -> op_flag(m, FLAG_C, TRUE)
      [] opcode = 88 -> op_flag(m, FLAG_I, FALSE)
      [] opcode = 120 -> op_flag(m, FLAG_I, TRUE)
      [] opcode = 72 -> Retire(push(m, m.A), 3)
      [] opcode = 104 -> op_pla(m)
      [] OTHER -> op_unknown(m)

\* CPU6502.step: [c |-> the cycles returned, m |-> the machine after the instruction]
step(m) == Bind(fetch_byte(m), LAMBDA f : execute(f.v, f.m))

\* the NMI sequence of NES.run_cpu_cycles (nmi_pending itself is cleared by the action)
nmi_sequence(m) ==
    Bind(push2(m, BitAnd(Shr(m.PC, 8), 255), BitAnd(m.PC, 255)), LAMBDA m2 :
    vector_jump(push(m2, BitAnd(BitAnd(m2.P, BitNot16(16)), 255)), 65530))

----------------------------------------------------------------------------
(* PPU address space *)

Ppu == [chr |-> chr, vram |-> vram, palette |-> palette]

\* PPU.read
ppu_read(pp, a) ==
    LET addr == BitAnd(a, 16383) IN
    IF addr < 8192 THEN Load(pp.chr, addr)
    ELSE IF addr < 16128 THEN Load(pp.vram, BitAnd(addr - 8192, 2047))
    ELSE Load(pp.palette, (addr - 16128) % 32)

\* PPU.write
ppu_write(pp, a, value) ==
    LET addr == BitAnd(a, 16383)
        val == BitAnd(value, 255)
    IN
    IF addr < 8192 THEN [pp EXCEPT !.chr = Store(@, addr, val)]
    ELSE IF addr < 16128 THEN [pp EXCEPT !.vram = Store(@, BitAnd(addr - 8192, 2047), val)]
    ELSE [pp EXCEPT !.palette = Store(@, (addr - 16128) % 32, val)]

----------------------------------------------------------------------------
(* Construction *)

target_cpu_cycles == 29780

NoOp == [op |-> "none", addr |-> 0, val |-> 0]
NoProto == [phase |-> "none", b |-> <<0, 0>>, n |-> <<0, 0>>]

\* NES.__init__ on the cartridge r: every field of the new system
Built(r) ==
    LET fresh == [rom |-> r, ram |-> Empty, sram |-> Empty,
                  controller_state |-> <<0, 0>>, controller_shift |-> <<0, 0>>,
                  controller_strobe |-> 0,
                  A |-> 0, X |-> 0, Y |-> 0, PC |-> 0, SP |-> 253, P |-> 36,
                  cycles |-> 0, oam |-> Empty]
    IN [m |-> reset(fresh),
        chr |-> IF r.chr_banks = 0 THEN Empty ELSE ChrImage,
        vram |-> Empty, palette |-> Empty, nmi_pending |-> FALSE]

\* the system as NES(rom_path) returns it for the cartridge r
Start(r) ==
        LET n == Built(r) IN
        /\ rom = r
        /\ ram = n.m.ram /\ sram = n.m.sram
        /\ controller_state = n.m.controller_state
        /\ controller_shift = n.m.controller_shift
        /\ controller_strobe = n.m.controller_strobe
        /\ A = n.m.A /\ X = n.m.X /\ Y = n.m.Y /\ PC = n.m.PC /\ SP = n.m.SP /\ P = n.m.P
        /\ cpu_cycles = n.m.cycles
        /\ oam = n.m.oam
        /\ chr = n.chr /\ vram = n.vram /\ palette = n.palette
        /\ nmi_pending = n.nmi_pending
        /\ pcs = "idle" /\ cycles = 0 /\ callNo = 0
        /\ instrs = 0 /\ nmiServed = 0 /\ nmiAt = -1
        /\ ret = 0 /\ lastOp = NoOp /\ proto = NoProto
        /\ trail = << >>

Init == \E r \in Roms : Start(r)

----------------------------------------------------------------------------
(* Actions *)

cpuVars == <<A, X, Y, PC, SP, P, cpu_cycles>>
busVars == <<ram, sram, controller_shift, controller_strobe, oam>>
ppuVars == <<chr, vram, palette>>
frameVars == <<pcs, cycles, callNo, instrs, nmiServed, nmiAt>>

\* the machine m becomes the state
Commit(m) ==
    /\ ram' = m.ram /\ sram' = m.sram
    /\ controller_shift' = m.controller_shift
    /\ controller_strobe' = m.controller_strobe
    /\ A' = m.A /\ X' = m.X /\ Y' = m.Y /\ PC' = m.PC /\ SP' = m.SP /\ P' = m.P
    /\ cpu_cycles' = m.cycles
    /\ oam' = m.oam

\* run(): K_r re-creates the NES from the same ROM
HostReset ==
    /\ pcs = "idle"
    /\ callNo > 0
    /\ LET n == Built(rom) IN
       /\ Commit(n.m)
       /\ controller_state' = n.m.controller_state
       /\ chr' = n.chr /\ vram' = n.vram /\ palette' = n.palette
       /\ nmi_pending' = n.nmi_pending
    /\ pcs' = "idle" /\ cycles' = 0 /\ callNo' = 0
    /\ instrs' = 0 /\ nmiServed' = 0 /\ nmiAt' = -1
    /\ ret' = 0 /\ lastOp' = NoOp /\ proto' = NoProto
    /\ trail' = << >>
    /\ UNCHANGED rom

\* KEYMAP: pygame key -> bit of controller_state[0]
KEYMAP ==
    [K_x |-> 0, K_z |-> 1, K_RETURN |-> 2, K_RSHIFT |-> 3,
     K_UP |-> 4, K_DOWN |-> 5, K_LEFT |-> 6, K_RIGHT |-> 7]

\* the button each key of KEYMAP stands for, as KEYMAP labels its entries
ButtonKey ==
    [A |-> "K_x", B |-> "K_z", Start |-> "K_RETURN", Select |-> "K_RSHIFT",
     Up |-> "K_UP", Down |-> "K_DOWN", Left |-> "K_LEFT", Right |-> "K_RIGHT"]

\* whether the bitmap b holds the button as pressed
Pressed(b, button) == Bit(b, KEYMAP[ButtonKey[button]])

\* run(): KEYDOWN / KEYUP of a mapped key sets / clears a bit of controller_state[0]
KeyProto(new) ==
    IF proto.phase = "high" /\ new # controller_state[1]
    THEN [proto EXCEPT !.phase = "dirty"]
    ELSE proto

KeyDown(key) ==
    /\ pcs = "idle"
    /\ LET new == BitOr(controller_state[1], 2^KEYMAP[key]) IN
       /\ controller_state' = [controller_state EXCEPT ![1] = new]
       /\ proto' = KeyProto(new)
    /\ lastOp' = [op |-> "key", addr |-> 0, val |-> 0]
    /\ UNCHANGED <<trail, rom, cpuVars, busVars, ppuVars, frameVars, nmi_pending, ret>>

KeyUp(key) ==
    /\ pcs = "idle"
    /\ LET new == BitAnd(controller_state[1], 255 - 2^KEYMAP[key]) IN
       /\ controller_state' = [controller_state EXCEPT ![1] = new]
       /\ proto' = KeyProto(new)
    /\ lastOp' = [op |-> "key", addr |-> 0, val |-> 0]
    /\ UNCHANGED <<trail, rom, cpuVars, busVars, ppuVars, frameVars, nmi_pending, ret>>

\* NES.frame is called: run_cpu_cycles starts with cycles = 0
FrameBegin ==
    /\ pcs = "idle"
    /\ callNo < MaxFrames
    /\ pcs' = "loop" /\ cycles' = 0 /\ callNo' = callNo + 1
    /\ instrs' = 0 /\ nmiServed' = 0 /\ nmiAt' = -1
    /\ lastOp' = [op |-> "frame", addr |-> 0, val |-> 0]
    /\ UNCHANGED <<trail, rom, controller_state, cpuVars, busVars, ppuVars, nmi_pending, ret, proto>>

\* run_cpu_cycles, top of a loop iteration with nmi_pending: the NMI sequence
ServiceNMI ==
    /\ pcs = "loop"
    /\ cycles < target_cpu_cycles
    /\ nmi_pending
    /\ nmi_pending' = FALSE
    /\ Commit(nmi_sequence(Machine))
    /\ nmiServed' = nmiServed + 1
    /\ nmiAt' = instrs
    /\ lastOp' = [op |-> "nmi", addr |-> 0, val |-> 0]
    /\ UNCHANGED <<trail, rom, controller_state, ppuVars, pcs, cycles, callNo, instrs, ret, proto>>

\* CpuStep with the pending NMI left for a later iteration
CpuStep_late_nmi ==
    /\ pcs = "loop"
    /\ cycles < target_cpu_cycles
    /\ LET s == step(Machine) IN
       /\ Commit(s.m)
       /\ cycles' = cycles + s.c
       /\ ret' = s.c
    /\ instrs' = instrs + 1
    /\ lastOp' = [op |-> "step", addr |-> PC, val |-> 0]
    /\ UNCHANGED <<trail, rom, controller_state, ppuVars, nmi_pending, pcs, callNo, nmiServed, nmiAt, proto>>

\* run_cpu_cycles, rest of the loop iteration: c = cpu.step(); cycles += c
CpuStep ==
    /\ pcs = "loop"
    /\ cycles < target_cpu_cycles
    /\ ~nmi_pending
    /\ LET s == step(Machine) IN
       /\ Commit(s.m)
       /\ cycles' = cycles + s.c
       /\ ret' = s.c
    /\ instrs' = instrs + 1
    /\ lastOp' = [op |-> "step", addr |-> PC, val |-> 0]
    /\ UNCHANGED <<trail, rom, controller_state, ppuVars, nmi_pending, pcs, callNo, nmiServed, nmiAt, proto>>

\* NES.frame after run_cpu_cycles returned: render, latch the NMI, return
FrameEnd ==
    /\ pcs = "loop"
    /\ cycles >= target_cpu_cycles
    /\ nmi_pending' = TRUE
    /\ pcs' = "idle"
    /\ lastOp' = [op |-> "frame_end", addr |-> 0, val |-> 0]
    /\ UNCHANGED <<trail, rom, controller_state, cpuVars, busVars, ppuVars, cycles, callNo,
                   instrs, nmiServed, nmiAt, ret, proto>>

\* the keys the host presses while frames run
HostKeys == {"K_x"}

Next ==
    \/ FrameBegin
    \/ ServiceNMI
    \/ CpuStep
    \/ FrameEnd
    \/ HostReset
    \/ \E key \in HostKeys : KeyDown(key)
    \/ \E key \in HostKeys : KeyUp(key)

Spec == Init /\ [][Next]_vars

\* The three steps of a running frame() call, each seen through the one
\* variable that shows it: CpuStep through instrs, ServiceNMI through
\* nmi_pending, FrameEnd through pcs.  Each has the guard of its action.
LoopStep ==
    /\ pcs = "loop" /\ cycles < target_cpu_cycles /\ ~nmi_pending
    /\ instrs' = instrs + 1

LoopNmi ==
    /\ pcs = "loop" /\ cycles < target_cpu_cycles /\ nmi_pending
    /\ nmi_pending' = FALSE

LoopReturn ==
    /\ pcs = "loop" /\ cycles >= target_cpu_cycles
    /\ pcs' = "idle"

\* frame() is one sequential call: once begun, its loop iterations and its
\* return are taken.  The host is free never to call it, press a key or reset.
FairSpec ==
    /\ Spec
    /\ WF_instrs(LoopStep) /\ WF_nmi_pending(LoopNmi) /\ WF_pcs(LoopReturn)

----------------------------------------------------------------------------
(* The bus and the PPU address space driven directly, one access per step *)

\* index into controller_shift of a controller port, 0 for any other address
PortOf(addr) == IF addr = 16406 THEN 1 ELSE IF addr = 16407 THEN 2 ELSE 0

\* protocol history after a read of controller port idx
ProtoRead(pr, idx) ==
    IF pr.phase = "none" THEN pr
    ELSE [pr EXCEPT !.phase = IF @ = "high" THEN "dirty" ELSE @,
                    !.n[idx] = @ + 1]

\* protocol history after a write of val to addr
ProtoWrite(pr, addr, val) ==
    IF addr = 16406 THEN
        IF val % 2 = 1
        THEN [phase |-> "high", b |-> controller_state, n |-> <<0, 0>>]
        ELSE [pr EXCEPT !.phase = IF @ = "high" THEN "low" ELSE @]
    ELSE IF addr = 16404 /\ val = 64 THEN ProtoRead(ProtoRead(pr, 1), 2)
    ELSE pr

\* nes.cpu_read(addr)
BusRead(addr) ==
    /\ pcs = "idle"
    /\ PortOf(addr) # 0 => proto.n[1] + proto.n[2] < MaxReads
    /\ LET r == cpu_read(Machine, addr) IN
       /\ Commit(r.m)
       /\ ret' = r.v
       /\ lastOp' = [op |-> "read", addr |-> addr, val |-> r.v]
    /\ proto' = (IF PortOf(addr) # 0 THEN ProtoRead(proto, PortOf(addr)) ELSE proto)
    /\ UNCHANGED <<trail, rom, controller_state, ppuVars, frameVars, nmi_pending>>

\* nes.cpu_write(addr, val)
BusWrite(addr, val) ==
    /\ pcs = "idle"
    /\ (addr = 16404 /\ val = 64) => proto.n[1] + proto.n[2] + 1 < MaxReads
    /\ Commit(cpu_write(Machine, addr, val))
    /\ lastOp' = [op |-> "write", addr |-> addr, val |-> val]
    /\ proto' = ProtoWrite(proto, addr, val)
    /\ UNCHANGED <<trail, rom, controller_state, ppuVars, frameVars, nmi_pending, ret>>

\* nes.ppu.read(addr)
PpuRead(addr) ==
    /\ pcs = "idle"
    /\ ret' = ppu_read(Ppu, addr)
    /\ lastOp' = [op |-> "ppu_read", addr |-> addr, val |-> ppu_read(Ppu, addr)]
    /\ UNCHANGED <<trail, rom, controller_state, cpuVars, busVars, ppuVars, frameVars,
                   nmi_pending, proto>>

\* nes.ppu.write(addr, val)
PpuWrite(addr, val) ==
    /\ pcs = "idle"
    /\ LET pp == ppu_write(Ppu, addr, val) IN
       /\ chr' = pp.chr /\ vram' = pp.vram /\ palette' = pp.palette
    /\ lastOp' = [op |-> "ppu_write", addr |-> addr, val |-> val]
    /\ UNCHANGED <<trail, rom, controller_state, cpuVars, busVars, frameVars,
                   nmi_pending, ret, proto>>

\* the cartridges the bus is driven on: 16 KiB / 32 KiB PRG, both mirrorings, CHR ROM / RAM
BusInit == Init /\ rom.prg_rom \in {PrgStore, PrgRti}

\* Controller protocol: key events, strobe writes, port reads
PadKeys == {"K_x", "K_RSHIFT", "K_RIGHT"}
StrobeVals == {0, 1, 2}

CtlNext ==
    \/ \E key \in PadKeys : KeyDown(key)
    \/ \E key \in PadKeys : KeyUp(key)
    \/ \E v \in StrobeVals : BusWrite(16406, v)
    \/ BusRead(16406)
    \/ BusRead(16407)

CtlSpec == BusInit /\ [][CtlNext]_vars

\* CPU bus: work RAM and its mirrors, PPU window, I/O page, SRAM, PRG, OAM DMA
Writes == {<<0, 66>>, <<6145, 165>>, <<8192, 66>>, <<24576, 66>>, <<32768, 66>>}
            \* $0000 $1801 $2000 $6000 $8000
ReadAddrs == {4096, 2049, 8192, 20480, 24576, 49152}
            \* $1000 $0801 $2000 $5000 $6000 $C000
DmaPages == {24, 64, 96, 255}
            \* $18 $40 $60 $FF

BusNext ==
    \/ \E w \in Writes : BusWrite(w[1], w[2])
    \/ \E a \in ReadAddrs : BusRead(a)
    \/ \E v \in DmaPages : BusWrite(16404, v)

BusSpec == BusInit /\ [][BusNext]_vars

\* The I/O page with the pads in use: key presses, strobe writes, reads over the
\* whole bus and OAM DMA.  IoBudget: port reads (a DMA from page $40 makes two)
\* are still allowed after the last latch.
IoBudget == proto.n[1] + proto.n[2] < MaxIoReads

IoNext ==
    /\ IoBudget
    /\ \/ \E key \in {"K_x", "K_RIGHT"} : KeyDown(key)
       \/ \E w \in {<<0, 66>>, <<16406, 1>>, <<16406, 0>>} : BusWrite(w[1], w[2])
            \* $0000 $4016 $4016
       \/ \E a \in {8192, 16384, 16405, 16406, 16407, 20480} : BusRead(a)
            \* $2000 $4000 $4015 $4016 $4017 $5000
       \/ \E v \in {24, 64} : BusWrite(16404, v)
            \* $18 $40

IoSpec == BusInit /\ [][IoNext]_vars

\* PPU address space: pattern table, the four nametables and a mirror, palette
PpuWrites == {<<16, 48>>, <<8192, 15>>, <<8192, 48>>, <<9216, 48>>, <<10240, 15>>,
              <<11264, 15>>, <<16128, 15>>, <<16144, 48>>}
            \* $0010 $2000 $2000 $2400 $2800 $2C00 $3F00 $3F10
PpuAddrs == {16, 8192, 9216, 10240, 11264, 12288, 16128, 16144, 16160}
            \* $0010 $2000 $2400 $2800 $2C00 $3000 $3F00 $3F10 $3F20

PpuNext ==
    \/ \E w \in PpuWrites : PpuWrite(w[1], w[2])
    \/ \E a \in PpuAddrs : PpuRead(a)

PpuSpec == BusInit /\ [][PpuNext]_vars

----------------------------------------------------------------------------
(* The CPU driven directly: cpu.step() called MaxSteps times on a new system *)

\* the "store" cartridge of Roms
RomStore == [prg_rom |-> PrgStore, prg_banks |-> 1, chr_banks |-> 1, mapper |-> 0, mirroring |-> "horizontal"]

\* a 16 KiB cartridge with CHR RAM and reset vector $8000
Rom16(prg) ==
    [prg_rom |-> prg @@ Vectors(1, 32768, 32768, 32768),
     prg_banks |-> 1, chr_banks |-> 0, mapper |-> 0, mirroring |-> "vertical"]

\* the branch opcodes CPU6502.step decodes: BNE, BEQ, BCC, BCS
BranchOps == {208, 240, 144, 176}
BranchOffsets == {2, 16, 240, 128}          \* +2, +16, -16, -128

\* LDA #z; SEC or CLC; then the branch op with operand off, either at $8003 or,
\* through a JMP, at $80FD (the next instruction at the last byte of the page)
PrgBranch(op, z, c, off, high) ==
    IF high
    THEN At(0, <<169, z, IF c = 1 THEN 56 ELSE 24, 76, 253, 128>>) @@ At(253, <<op, off>>)
    ELSE At(0, <<169, z, IF c = 1 THEN 56 ELSE 24, op, off>>)

BranchRoms ==
    { Rom16(PrgBranch(op, z, c, off, high)) :
        op \in BranchOps, z \in {0, 1}, c \in {0, 1}, off \in BranchOffsets, high \in BOOLEAN }

\* the bytes ADC is run on: both signs, the carry and overflow boundaries
AdcBytes == {0, 1, 15, 16, 63, 64, 80, 127, 128, 129, 144, 176, 208, 240, 254, 255}

\* LDA #a; SEC or CLC; ADC #m -- or, with the operand in zero page,
\* LDA #m; STA $10; LDA #a; SEC or CLC; ADC $10
PrgAdc(a, m, c, zp) ==
    IF zp
    THEN At(0, <<169, m, 133, 16, 169, a, IF c = 1 THEN 56 ELSE 24, 101, 16>>)
    ELSE At(0, <<169, a, IF c = 1 THEN 56 ELSE 24, 105, m>>)

AdcRoms ==
    { Rom16(PrgAdc(a, m, c, zp)) : a \in AdcBytes, m \in AdcBytes, c \in {0, 1}, zp \in BOOLEAN }

\* "jsr": JSR $C123 (an RTS); JSR $C200 (PHA; JSR $C123; PLA; RTS); spin
PrgJsr ==
    At(0, <<32, 35, 193, 32, 0, 194, 76, 6, 128>>)  \* $8000 JSR $C123; JSR $C200; JMP $8006
    @@ At(16675, <<96>>)                            \* $C123 RTS
    @@ At(16896, <<72, 32, 35, 193, 104, 96>>)      \* $C200 PHA; JSR $C123; PLA; RTS
    @@ Vectors(2, 32768, 32768, 32768)

\* "jsrtop": a JSR in the last three bytes of the address space.  The reset
\* vector $2000 lands on a BRK (the PPU window reads 0), whose IRQ vector
\* $8000 is also the operand of the JSR at $FFFD.
PrgJsrTop ==
    At(0, <<176, 4, 56, 76, 253, 255, 96>>)         \* $8000 BCS $8006; SEC; JMP $FFFD; $8006 RTS
    @@ Vectors(1, 32768, 8192, 32768)               \* $FFFD: 20 00 80 = JSR $8000

JsrRoms ==
    { [prg_rom |-> PrgJsr, prg_banks |-> 2, chr_banks |-> 0, mapper |-> 0, mirroring |-> "vertical"],
      [prg_rom |-> PrgJsrTop, prg_banks |-> 1, chr_banks |-> 0, mapper |-> 0, mirroring |-> "vertical"] }

\* "stack": LDX #$FF; TXS; LDA #$01; PHA; PLA
PrgStack == At(0, <<162, 255, 154, 169, 1, 72, 104>>)

\* LDA #$80; SEC; PHA; then the opcode op with $FF $FF behind it
PrgUnknown(op) == At(0, <<169, 128, 56, 72, op, 255, 255>>)

UnknownRoms == { Rom16(PrgUnknown(op)) : op \in (0..255) \ Decoded }

\* status bytes an RTI finds on the stack: bits 4 and 5 in every combination
RtiBytes == {0, 16, 32, 48, 195, 207, 36, 255}

\* LDA #$80; PHA; LDA #$10; PHA; LDA #p; PHA; RTI: an RTI that pulls P = p, PC = $8010,
\* where a BRK stands
PrgRtiStack(p) ==
    At(0, <<169, 128, 72, 169, 16, 72, 169, p, 72, 64>>)
    @@ At(16, <<0>>)                                \* $8010 BRK

RtiRoms == { Rom16(PrgRtiStack(p)) : p \in RtiBytes }

\* the cartridges the CPU is stepped on
CpuRoms ==
    {RomStore, Rom16(PrgStack)} \cup BranchRoms \cup AdcRoms \cup JsrRoms \cup UnknownRoms
    \cup RtiRoms

CpuInit == \E r \in CpuRoms : Start(r)

\* nes.cpu.step()
Step ==
    /\ Len(trail) < MaxSteps
    /\ LET s == step(Machine) IN
       /\ Commit(s.m)
       /\ ret' = s.c
       /\ trail' = Append(trail, [pc |-> PC, sp |-> SP, op |-> cpu_read(Machine, PC).v, c |-> s.c])
    /\ lastOp' = [op |-> "step", addr |-> PC, val |-> 0]
    /\ UNCHANGED <<rom, controller_state, ppuVars, nmi_pending, frameVars, proto>>

CpuNext == Step

CpuSpec == CpuInit /\ [][CpuNext]_vars

----------------------------------------------------------------------------
(* Construction from an iNES image: run() calls NES(rom_path) *)

\* the header bytes _load reads: magic (bytes 0-3 are "NES\x1a" and all 16
\* bytes are there), byte 4, byte 5, flags 6, flags 7
Headers ==
    [magic : BOOLEAN, prg_banks : {0, 1, 2, 3, 4}, chr_banks : {0, 1},
     flags6 : {0, 1, 16, 33}, flags7 : {0, 16, 64}]

\* self.mapper = ((flags7 >> 4) << 4) | (flags6 >> 4)
mapper_of(flags6, flags7) == BitOr(Shr(flags7, 4) * 16, Shr(flags6, 4))

\* INESRom._load on a complete file with the header h: ok = FALSE for the ValueError.
\* The PRG of the image is PrgFill but for the vectors, all $8000.
load(h) ==
    IF ~h.magic THEN [ok |-> FALSE]
    ELSE [ok |-> TRUE,
          rom |-> [prg_rom |-> IF h.prg_banks = 0 THEN Empty
                                ELSE Vectors(h.prg_banks, 32768, 32768, 32768),
                   prg_banks |-> h.prg_banks, chr_banks |-> h.chr_banks,
                   mapper |-> mapper_of(h.flags6, h.flags7),
                   mirroring |-> IF BitAnd(h.flags6, 1) = 1 THEN "vertical" ELSE "horizontal"]]

\* NES.cpu_read(addr) indexes self.prg past its end (IndexError)
read_raises(r, addr) ==
    /\ addr >= 32768
    /\ r.prg_banks # 1
    /\ addr - 32768 >= r.prg_banks * 16384

\* NES(rom_path) returns a system: _load accepts the header and cpu.reset() reads the vector
constructs(h) ==
    /\ load(h).ok
    /\ ~read_raises(load(h).rom, 65532) /\ ~read_raises(load(h).rom, 65533)

\* before run() has called NES(rom_path): the fields INESRom.__init__ sets before _load
LoadInit ==
    /\ rom = [prg_rom |-> Empty, prg_banks |-> 0, chr_banks |-> 0, mapper |-> 0,
              mirroring |-> "horizontal"]
    /\ ram = Empty /\ sram = Empty
    /\ controller_state = <<0, 0>> /\ controller_shift = <<0, 0>> /\ controller_strobe = 0
    /\ A = 0 /\ X = 0 /\ Y = 0 /\ PC = 0 /\ SP = 253 /\ P = 36 /\ cpu_cycles = 0
    /\ oam = Empty /\ chr = Empty /\ vram = Empty /\ palette = Empty
    /\ nmi_pending = FALSE
    /\ pcs = "none" /\ cycles = 0 /\ callNo = 0
    /\ instrs = 0 /\ nmiServed = 0 /\ nmiAt = -1
    /\ ret = 0 /\ lastOp = NoOp /\ proto = NoProto
    /\ trail = << >>

\* nes = NES(rom_path) on an image with the header h
Construct(h) ==
    /\ pcs = "none"
    /\ lastOp' = [op |-> "construct", addr |-> 0, val |-> 0]
    /\ IF constructs(h)
       THEN LET n == Built(load(h).rom) IN
            /\ rom' = load(h).rom
            /\ Commit(n.m)
            /\ controller_state' = n.m.controller_state
            /\ chr' = n.chr /\ vram' = n.vram /\ palette' = n.palette
            /\ nmi_pending' = n.nmi_pending
            /\ pcs' = "idle"
       ELSE /\ pcs' = "failed"
            /\ rom' = IF load(h).ok THEN load(h).rom ELSE rom
            /\ UNCHANGED <<cpuVars, busVars, ppuVars, controller_state, nmi_pending>>
    /\ UNCHANGED <<cycles, callNo, instrs, nmiServed, nmiAt, ret, proto, trail>>

\* nes.cpu.step() on a system that was built
LoadStep == pcs = "idle" /\ Step

LoadNext ==
    \/ \E h \in Headers : Construct(h)
    \/ LoadStep

LoadSpec == LoadInit /\ [][LoadNext]_vars

----------------------------------------------------------------------------
(* CHR tile decoding: the pattern table of a PPU built on given CHR data,  *)
(* decoded tile by tile as render_frame (v1.1) and _decode_all_tiles       *)
(* (v1.0) do                                                               *)

Shl(x, n) == x * (2^n)

\* decode_tile_8x8 with the two bit planes exchanged
decode_tile_8x8_swapped(tile_bytes) ==
    LET plane0 == SubSeq(tile_bytes, 9, 16)
        plane1 == SubSeq(tile_bytes, 1, 8)
    IN [y \in 0..7 |-> [x \in 0..7 |->
            BitOr(Shl(BitAnd(Shr(plane1[y + 1], 7 - x), 1), 1),
                  BitAnd(Shr(plane0[y + 1], 7 - x), 1))]]

\* v1.1 decode_tile_8x8: pixels[y][x], rows and columns counted from 0
decode_tile_8x8(tile_bytes) ==
    LET plane0 == SubSeq(tile_bytes, 1, 8)
        plane1 == SubSeq(tile_bytes, 9, 16)
    IN [y \in 0..7 |-> [x \in 0..7 |->
            LET bit == 7 - x
                v0 == BitAnd(Shr(plane0[y + 1], bit), 1)
                v1 == BitAnd(Shr(plane1[y + 1], bit), 1)
            IN BitOr(Shl(v1, 1), v0)]]

\* v1.0 decode_tile: the same loop behind `assert len(tile_bytes) == 16`
decode_tile(tile_bytes) ==
    IF Len(tile_bytes) # 16 THEN "AssertionError"
    ELSE LET plane0 == SubSeq(tile_bytes, 1, 8)
             plane1 == SubSeq(tile_bytes, 9, 16)
         IN [y \in 0..7 |-> [x \in 0..7 |->
                 LET bit == 7 - x
                     v0 == BitAnd(Shr(plane0[y + 1], bit), 1)
                     v1 == BitAnd(Shr(plane1[y + 1], bit), 1)
                 IN BitOr(Shl(v1, 1), v0)]]

\* data[i*16:(i+1)*16]
tile_bytes_at(data, i) == [k \in 1..16 |-> Load(data, i * 16 + k - 1)]

\* row bytes the tiles are made of: empty, full, edges, alternating, single bits
PlaneBytes == {0, 255, 1, 128, 129, 170, 85, 15, 240, 60, 36, 7}

\* a 16-byte tile whose rows differ: row y of plane 0 is a + 29y, of plane 1 is b + 53y
Tile(a, b) ==
    [k \in 1..16 |-> IF k <= 8 THEN (a + 29 * (k - 1)) % 256 ELSE (b + 53 * (k - 9)) % 256]

\* CHR data of two tiles, as a sparse array
ChrTiles(a, b) ==
    LET data == Tile(a, b) \o Tile(b, a)
    IN [i \in {j \in 0..31 : data[j + 1] # 0} |-> data[i + 1]]

\* PPU(rom, chr_data) on a new system
TileInit ==
    \E a \in PlaneBytes, b \in PlaneBytes :
        LET n == Built(RomStore) IN
        /\ rom = RomStore
        /\ ram = n.m.ram /\ sram = n.m.sram
        /\ controller_state = n.m.controller_state
        /\ controller_shift = n.m.controller_shift
        /\ controller_strobe = n.m.controller_strobe
        /\ A = n.m.A /\ X = n.m.X /\ Y = n.m.Y /\ PC = n.m.PC /\ SP = n.m.SP /\ P = n.m.P
        /\ cpu_cycles = n.m.cycles
        /\ oam = n.m.oam
        /\ chr = ChrTiles(a, b) /\ vram = n.vram /\ palette = n.palette
        /\ nmi_pending = n.nmi_pending
        /\ pcs = "idle" /\ cycles = 0 /\ callNo = 0
        /\ instrs = 0 /\ nmiServed = 0 /\ nmiAt = -1
        /\ ret = 0 /\ lastOp = NoOp /\ proto = NoProto
        /\ trail = << >>

\* tile i of the pattern table decoded by both versions
DecodeTile(i) ==
    /\ pcs = "idle"
    /\ ret' = [v11 |-> decode_tile_8x8(tile_bytes_at(chr, i)),
               v10 |-> decode_tile(tile_bytes_at(chr, i))]
    /\ lastOp' = [op |-> "decode", addr |-> i, val |-> 0]
    /\ UNCHANGED <<trail, rom, controller_state, cpuVars, busVars, ppuVars, frameVars,
                   nmi_pending, proto>>

TileNext == \E i \in {0, 1} : DecodeTile(i)

TileSpec == TileInit /\ [][TileNext]_vars

----------------------------------------------------------------------------
(* Rendering: PPU.render_frame on given PPU memory and OAM.  The surface   *)
(* is written pixel by pixel, so its content at one position is the last   *)
(* write to that position: the fill, the background tile, then the sprites *)
(* 0..63 in the order of the loop.                                         *)

SCREEN_W == 256
SCREEN_H == 240

\* the RGB table, NES_PALETTE[i] of the source is NES_PALETTE[i + 1] here
NES_PALETTE ==
    <<<<84, 84, 84>>, <<0, 30, 116>>, <<8, 16, 144>>, <<48, 0, 136>>, <<68, 0, 100>>, <<92, 0, 48>>, <<84, 4, 0>>, <<60, 24, 0>>,
       <<32, 42, 0>>, <<8, 58, 0>>, <<0, 64, 0>>, <<0, 60, 0>>, <<0, 50, 60>>, <<0, 0, 0>>, <<0, 0, 0>>, <<0, 0, 0>>,
       <<152, 150, 152>>, <<8, 76, 196>>, <<48, 50, 236>>, <<92, 30, 228>>, <<136, 20, 176>>, <<160, 20, 100>>, <<152, 34, 32>>, <<120, 60, 0>>,
       <<84, 90, 0>>, <<40, 114, 0>>, <<8, 124, 0>>, <<0, 118, 40>>, <<0, 102, 120>>, <<0, 0, 0>>, <<0, 0, 0>>, <<0, 0, 0>>,
       <<236, 238, 236>>, <<76, 154, 236>>, <<120, 124, 236>>, <<176, 98, 236>>, <<228, 84, 236>>, <<236, 88, 180>>, <<236, 106, 100>>, <<212, 136, 32>>,
       <<160, 170, 0>>, <<116, 196, 0>>, <<76, 208, 32>>, <<56, 204, 108>>, <<56, 180, 204>>, <<60, 60, 60>>, <<0, 0, 0>>, <<0, 0, 0>> >>

\* NES_PALETTE[color_index % len(NES_PALETTE)] with color_index = self.read(addr) & 0x3F
palette_color(pp, addr) ==
    NES_PALETTE[(BitAnd(ppu_read(pp, addr), 63) % Len(NES_PALETTE)) + 1]

\* bg_color: NES_PALETTE[self.palette[0] % len(NES_PALETTE)]
fill_color(pp) == NES_PALETTE[(Load(pp.palette, 0) % Len(NES_PALETTE)) + 1]

\* len(self.chr) // 16 for the 8 KiB of CHR
tile_count == 512

\* tiles[idx % max(1, len(tiles))]
tile_of(pp, idx) == decode_tile_8x8(tile_bytes_at(pp.chr, idx % tile_count))

\* the colour the background loop writes at (px, py)
background_at(pp, px, py) ==
    LET col == px \div 8
        row == py \div 8
        tile == tile_of(pp, ppu_read(pp, 8192 + row * 32 + col))
        attr == ppu_read(pp, 9152 + (row \div 4) * 8 + (col \div 4))
        shift == (((row % 4) \div 2) * 2 + ((col % 4) \div 2)) * 2
        palette_id == BitAnd(Shr(attr, shift), 3)
        pal_base == 16128 + palette_id * 4
        pidx == BitAnd(tile[py % 8][px % 8], 3)
    IN palette_color(pp, pal_base + pidx)

\* iteration s of the sprite loop at (px, py): whether it writes there, and what
sprite_at(pp, o, s, px, py) ==
    LET y == Load(o, s * 4)
        tile_idx == Load(o, s * 4 + 1)
        attr == Load(o, s * 4 + 2)
        x == Load(o, s * 4 + 3)
        pal_base == 16144 + BitAnd(attr, 3) * 4
        tx == px - x
        ty == py - y
        sx == IF BitAnd(attr, 64) = 0 THEN tx ELSE 7 - tx
        sy == IF BitAnd(attr, 128) = 0 THEN ty ELSE 7 - ty
    IN IF tx \in 0..7 /\ ty \in 0..7 /\ px \in 0..(SCREEN_W - 1) /\ py \in 0..(SCREEN_H - 1)
       THEN LET pidx == BitAnd(tile_of(pp, tile_idx)[sy][sx], 3)
            IN [writes |-> pidx # 0, color |-> palette_color(pp, pal_base + pidx)]
       ELSE [writes |-> FALSE, color |-> <<0, 0, 0>>]

\* the sprite loop over a position that holds `color`: iterations run s = 0..63
\* in order and each write replaces the one before, so the position ends with
\* the write of the last iteration that writes there
sprites_over(pp, o, px, py, color) ==
    LET writers == {s \in 0..63 : sprite_at(pp, o, s, px, py).writes}
    IN IF writers = {} THEN color
       ELSE sprite_at(pp, o, CHOOSE s \in writers : \A t \in writers : t <= s, px, py).color

\* surf.get_at((px, py)) of the surface render_frame returns
render_at(pp, o, px, py) ==
    sprites_over(pp, o, px, py,
                 IF px \div 8 < 32 /\ py \div 8 < 30 THEN background_at(pp, px, py)
                 ELSE fill_color(pp))

\* pattern table: tile 0 is t0, tile 1 has the pixel rows 3 3 1 1 2 2 0 0 (rows 0-3)
\* and 0 0 2 2 1 1 3 3 (rows 4-7)
ChrScene(t0) ==
    LET data == t0 \o <<240, 240, 240, 240, 15, 15, 15, 15, 204, 204, 204, 204, 51, 51, 51, 51>>
    IN [i \in {j \in 0..31 : data[j + 1] # 0} |-> data[i + 1]]

\* a tile of index 0 everywhere (plane 0 all 0) or of index 1 everywhere (all $FF)
FlatTile(b) == [k \in 1..16 |-> IF k <= 8 THEN b ELSE 0]

\* name table 0: tile n at row 1 column 0, tile 1 at row 1 column 1, attribute byte a
\* for rows 0-3, columns 0-3
VramScene(n, a) ==
    LET cells == (32 :> n) @@ (33 :> 1) @@ (960 :> a)
    IN [i \in {j \in DOMAIN cells : cells[j] # 0} |-> cells[i]]

\* palette RAM: universal colour u at $3F00, q at $3F04, the other entries distinct
PaletteScene(u, q) ==
    LET cells == (0 :> u) @@ (1 :> 1) @@ (2 :> 2) @@ (3 :> 3)
                 @@ (4 :> q) @@ (5 :> 5) @@ (6 :> 6) @@ (7 :> 7)
                 @@ (17 :> 17) @@ (18 :> 18) @@ (19 :> 19)
                 @@ (21 :> 21) @@ (22 :> 22) @@ (23 :> 23)
    IN [i \in {j \in DOMAIN cells : cells[j] # 0} |-> cells[i]]

\* OAM: sprite 0 at (16, 16) and sprite 1 at pos1, both of tile 1; sprites 2..63 are zero
OamScene(attr0, pos1, attr1) ==
    LET cells == (0 :> 16) @@ (1 :> 1) @@ (2 :> attr0) @@ (3 :> 16)
                 @@ (4 :> pos1[2]) @@ (5 :> 1) @@ (6 :> attr1) @@ (7 :> pos1[1])
    IN [i \in {j \in DOMAIN cells : cells[j] # 0} |-> cells[i]]

\* the screen positions looked at in the returned surface
Probes ==
    {<<0, 0>>, <<6, 0>>, <<0, 8>>, <<2, 8>>, <<4, 8>>, <<6, 8>>, <<8, 8>>, <<14, 8>>,
     <<14, 15>>, <<16, 8>>, <<16, 16>>, <<18, 16>>, <<20, 18>>, <<22, 16>>, <<23, 23>>,
     <<22, 23>>, <<27, 25>>, <<252, 236>>, <<255, 239>>, <<253, 237>>, <<0, 236>>,
     <<3, 239>>, <<252, 0>>, <<255, 3>>}

\* a new system whose PPU memory and OAM hold a scene
RenderInit ==
    \E t0 \in {FlatTile(0), FlatTile(255)}, n \in {0, 1}, a \in {0, 1, 3},
       u \in {0, 33}, q \in {0, 40},
       attr0 \in {0, 64, 128}, pos1 \in {<<16, 16>>, <<20, 18>>, <<252, 236>>},
       attr1 \in {1, 193} :
        LET b == Built(RomStore) IN
        /\ rom = RomStore
        /\ ram = b.m.ram /\ sram = b.m.sram
        /\ controller_state = b.m.controller_state
        /\ controller_shift = b.m.controller_shift
        /\ controller_strobe = b.m.controller_strobe
        /\ A = b.m.A /\ X = b.m.X /\ Y = b.m.Y /\ PC = b.m.PC /\ SP = b.m.SP /\ P = b.m.P
        /\ cpu_cycles = b.m.cycles
        /\ oam = OamScene(attr0, pos1, attr1)
        /\ chr = ChrScene(t0) /\ vram = VramScene(n, a) /\ palette = PaletteScene(u, q)
        /\ nmi_pending = b.nmi_pending
        /\ pcs = "idle" /\ cycles = 0 /\ callNo = 0
        /\ instrs = 0 /\ nmiServed = 0 /\ nmiAt = -1
        /\ ret = 0 /\ lastOp = NoOp /\ proto = NoProto
        /\ trail = << >>

\* surf = nes.ppu.render_frame(), the surface kept at the positions of Probes
RenderFrame ==
    /\ pcs = "idle"
    /\ ret' = [p \in Probes |-> render_at(Ppu, oam, p[1], p[2])]
    /\ lastOp' = [op |-> "render", addr |-> 0, val |-> 0]
    /\ UNCHANGED <<trail, rom, controller_state, cpuVars, busVars, ppuVars, frameVars,
                   nmi_pending, proto>>

RenderSpec == RenderInit /\ [][RenderFrame]_vars

----------------------------------------------------------------------------
(* Properties *)

\* the system is as NES.__init__ left it: nothing has been applied to it yet
JustBuilt == lastOp = NoOp

\* C1: after constructing the system from a valid cartridge, PC is the
\* little-endian word at CPU addresses $FFFC/$FFFD, SP = $FD and P = $24.
C1_ResetVector ==
    JustBuilt =>
        /\ PC = cpu_read(Machine, 65532).v + 256 * cpu_read(Machine, 65533).v
        /\ SP = 253
        /\ P = 36

\* a 16 KiB cartridge whose reset vector names the upper mirror has been constructed
C1_Witness ==
    /\ JustBuilt
    /\ rom.prg_banks = 1
    /\ PC = 49152
    /\ prg_rom(rom, 16380) = 0 /\ prg_rom(rom, 16381) = 192

\* C2: every frame() call returns with an NMI latched; the first call after
\* construction services none; the NMI latched by call n is serviced exactly
\* once, by call n+1 before it executes any instruction.
C2_NmiHandshake ==
    /\ (pcs = "idle" /\ callNo >= 1) => nmi_pending
    /\ callNo <= 1 => (nmiServed = 0 /\ nmiAt = -1)
    /\ callNo >= 2 =>
          \/ nmiServed = 1 /\ nmiAt = 0 /\ (pcs = "loop" => ~nmi_pending)
          \/ nmiServed = 0 /\ instrs = 0 /\ pcs = "loop" /\ nmi_pending

\* the second call has run to its end: one NMI serviced, instructions executed after it
C2_Witness ==
    /\ callNo = 2 /\ pcs = "idle"
    /\ nmiServed = 1 /\ nmiAt = 0 /\ instrs > 1
    /\ nmi_pending

\* C3: servicing a pending NMI pushes PC high, PC low, then (P & ~$10) | $20,
\* sets I, clears the latch and loads PC from $FFFA/$FFFB; SP ends 3 lower.
C3_NmiSequence ==
    [][lastOp'.op = "nmi" =>
          /\ Load(ram', 256 + SP) = (PC \div 256) % 256
          /\ Load(ram', 256 + ((SP - 1) % 256)) = PC % 256
          /\ Load(ram', 256 + ((SP - 2) % 256)) = BitOr(BitAnd(P, 239), 32)
          /\ get_flag(P', FLAG_I)
          /\ ~nmi_pending'
          /\ PC' = cpu_read(Machine, 65530).v + 256 * cpu_read(Machine, 65531).v
          /\ SP' = (SP - 3) % 256]_vars

\* the target of the JMP (p) at m.PC: low byte at p, high byte at
\* (p & $FF00) | ((p+1) & $FF)
JmpIndirectTarget(m) ==
    LET p == cpu_read(m, m.PC + 1).v + 256 * cpu_read(m, m.PC + 2).v IN
    cpu_read(m, p).v + 256 * cpu_read(m, BitOr(BitAnd(p, 65280), BitAnd(p + 1, 255))).v

\* C10: JMP indirect sets PC to the low byte read at p and the high byte read
\* at (p & $FF00) | ((p+1) & $FF), p being the operand word.
C10_JmpIndirect ==
    [][(lastOp'.op = "step" /\ cpu_read(Machine, PC).v = 108) =>
          PC' = JmpIndirectTarget(Machine)]_vars

\* JMP ($10FF) at $C00F has executed and took its high byte from $1000, not $1100
C10_Witness ==
    /\ lastOp.op = "step" /\ lastOp.addr = 49167
    /\ Load(ram, 255) = 52 /\ Load(ram, 0) = 128 /\ Load(ram, 256) = 144
    /\ PC = 32820

\* the last operation was a read of controller port idx
ReadPort(idx) ==
    /\ lastOp.op = "read"
    /\ PortOf(lastOp.addr) = idx

\* C4: while strobe is high, every read of $4016 returns the current A-button
\* bit of controller 1 in bit 0.
C4_StrobeHighReadsA ==
    (controller_strobe = 1 /\ ReadPort(1)) => ret % 2 = Pressed(controller_state[1], "A")

\* the order in which the buttons are to be read
Canonical == <<"A", "B", "Select", "Start", "Up", "Down", "Left", "Right">>

\* C5: after a strobe write of 1 then 0 with button bitmap b, the k-th read
\* (k = 1..8) of a port returns in bit 0 the k-th button of A, B, Select, Start,
\* Up, Down, Left, Right of that pad's b, with bit 6 set, and each read shifts
\* only the register of the port read.
C5_SerialRead ==
    \A idx \in {1, 2} :
        (proto.phase = "low" /\ ReadPort(idx) /\ proto.n[idx] \in 1..8) =>
            /\ ret % 2 = Pressed(proto.b[idx], Canonical[proto.n[idx]])
            /\ Bit(ret, 6) = 1
            /\ controller_shift[1] = Shr(proto.b[1], proto.n[1])
            /\ controller_shift[2] = Shr(proto.b[2], proto.n[2])

\* the k-th read after latching returns bit k-1 of the latched bitmap, with bit
\* 6 set, and shifts only the register of the port read
ShiftRegisterBits ==
    \A idx \in {1, 2} :
        (proto.phase = "low" /\ ReadPort(idx) /\ proto.n[idx] \in 1..8) =>
            /\ ret % 2 = Bit(proto.b[idx], proto.n[idx] - 1)
            /\ Bit(ret, 6) = 1
            /\ controller_shift[1] = Shr(proto.b[1], proto.n[1])
            /\ controller_shift[2] = Shr(proto.b[2], proto.n[2])

\* bits 0, 3 and 7 latched; the eighth read of $4016 returned bit 7 = 1 after
\* an interleaved read of $4017
ShiftRegisterBits_Witness ==
    /\ proto.phase = "low" /\ proto.b = <<137, 0>>
    /\ ReadPort(1) /\ proto.n = <<8, 1>>
    /\ ret = 65
    /\ controller_shift = <<0, 0>>

\* C6: once eight reads of a port have been made after latching, every further
\* read of that port returns 1 in bit 0, until the next strobe.
C6_Terminator ==
    \A idx \in {1, 2} :
        (proto.phase = "low" /\ ReadPort(idx) /\ proto.n[idx] > 8) => ret % 2 = 1

\* C7: a write of V to $4014 leaves OAM[i] equal to the byte the CPU bus holds
\* at V*$100 + i, for every i in 0..255, within that single write.
C7_OamDma ==
    [][(lastOp'.op = "write" /\ lastOp'.addr = 16404) =>
          \A i \in 0..255 :
              Load(oam', i) = cpu_read(Machine, lastOp'.val * 256 + i).v]_vars

\* DMA from page $18 (a mirror of work RAM page 0) has copied the bytes written
\* through $0000 and $1801
C7_Witness ==
    /\ lastOp = [op |-> "write", addr |-> 16404, val |-> 24]
    /\ Load(oam, 0) = 66 /\ Load(oam, 1) = 165
    /\ Load(oam, 255) = 0

\* C8: after a CPU write of v to an address a in $0000-$1FFF, every address of
\* $0000-$1FFF congruent to a modulo $0800 reads v.
C8_RamMirror ==
    (lastOp.op = "write" /\ lastOp.addr <= 8191) =>
        \A k \in 0..3 :
            cpu_read(Machine, (lastOp.addr % 2048) + 2048 * k).v = lastOp.val

\* $A5 written through $1801 is read back at $0001, $0801, $1001 and $1801
C8_Witness ==
    /\ lastOp = [op |-> "write", addr |-> 6145, val |-> 165]
    /\ cpu_read(Machine, 1).v = 165
    /\ cpu_read(Machine, 4097).v = 165

\* C9: a PPU write to $2000 is observable at $2800 and not at $2400 under
\* vertical mirroring, and at $2400 and not at $2800 under horizontal mirroring.
C9_NametableMirror ==
    [][(lastOp'.op = "ppu_write" /\ lastOp'.addr = 8192) =>
          IF rom.mirroring = "vertical"
          THEN /\ ppu_read(Ppu', 10240) = lastOp'.val
               /\ ppu_read(Ppu', 9216) = ppu_read(Ppu, 9216)
          ELSE /\ ppu_read(Ppu', 9216) = lastOp'.val
               /\ ppu_read(Ppu', 10240) = ppu_read(Ppu, 10240)]_vars

\* the bytes bs are what the CPU bus holds from address a on
BusHolds(a, bs) == \A i \in 1..Len(bs) : cpu_read(Machine, a + i - 1).v = bs[i]

\* C14: with A9 42 8D 00 02 at $8000 and reset vector $8000, the first step()
\* leaves A = $42, Z = 0, N = 0, PC = $8002, cycle counter 2; the second leaves
\* $42 at $0200, PC = $8005, cycle counter 6.
C14_LdaSta ==
    (BusHolds(32768, <<169, 66, 141, 0, 2>>) /\ BusHolds(65532, <<0, 128>>)) =>
        /\ Len(trail) = 1 =>
              /\ A = 66 /\ ~get_flag(P, FLAG_Z) /\ ~get_flag(P, FLAG_N)
              /\ PC = 32770 /\ cpu_cycles = 2
        /\ Len(trail) = 2 =>
              /\ cpu_read(Machine, 512).v = 66
              /\ PC = 32773 /\ cpu_cycles = 6

\* LDA #$42 and STA $0200 have both been stepped on the "store" cartridge
C14_Witness ==
    /\ rom = RomStore
    /\ Len(trail) = 2 /\ trail[1].op = 169 /\ trail[2].op = 141
    /\ Load(ram, 512) = 66

\* the last instruction stepped
Last == trail[Len(trail)]

\* whether the branch op is taken under the flags p
BranchTaken(op, p) ==
    CASE op = 208 -> ~get_flag(p, FLAG_Z)       \* BNE
      [] op = 240 -> get_flag(p, FLAG_Z)        \* BEQ
      [] op = 144 -> ~get_flag(p, FLAG_C)       \* BCC
      [] op = 176 -> get_flag(p, FLAG_C)        \* BCS

\* the cycles a branch at pc is to cost under the flags p
BranchCost(pc, p) ==
    LET op == cpu_read(Machine, pc).v
        off == cpu_read(Machine, pc + 1).v
        next == (pc + 2) % 65536
        target == (next + (IF off < 128 THEN off ELSE off - 256)) % 65536
    IN IF ~BranchTaken(op, p) THEN 2
       ELSE IF target \div 256 = next \div 256 THEN 3 ELSE 4

\* C11: a branch step() returns 2 when not taken, 3 when taken to the page of
\* the next instruction, 4 when taken to another page.
C11_BranchCycles ==
    (trail # << >> /\ Last.op \in BranchOps) => Last.c = BranchCost(Last.pc, P)

\* a taken branch to another page returned 3
C11_Witness ==
    /\ trail # << >> /\ Last.op = 208 /\ Last.pc = 33021
    /\ ~get_flag(P, FLAG_Z)
    /\ PC = 33025 /\ Last.c = 3

\* a step() is being taken on the opcode op
Stepping(op) == Len(trail') = Len(trail) + 1 /\ cpu_read(Machine, PC).v = op

\* what ADC is to leave in A and in C, V, Z, N from accumulator a, operand m, carry c
AdcSum(a, m, c) ==
    LET r == a + m + c
        b == r % 256
    IN [A |-> b,
        C |-> r > 255,
        V |-> (a \div 128 = m \div 128) /\ (b \div 128 # a \div 128),
        Z |-> b = 0,
        N |-> b \div 128 = 1]

\* the registers hold what AdcSum gives
AdcDone(res, a, p) ==
    /\ a = res.A
    /\ get_flag(p, FLAG_C) = res.C /\ get_flag(p, FLAG_V) = res.V
    /\ get_flag(p, FLAG_Z) = res.Z /\ get_flag(p, FLAG_N) = res.N

\* C12: ADC computes r = A + M + C and leaves A = r & $FF, C = (r > $FF),
\* V = (A and M have the same sign and the result's sign differs), Z = (result
\* byte is 0), N = bit 7 of the result byte.
C12_Adc ==
    [][/\ Stepping(105) =>
            AdcDone(AdcSum(A, cpu_read(Machine, PC + 1).v, P % 2), A', P')
       /\ Stepping(101) =>
            AdcDone(AdcSum(A, cpu_read(Machine, cpu_read(Machine, PC + 1).v).v, P % 2), A', P')]_vars

\* ADC #$50 has run with A = $50 and carry clear: A = $A0, C = 0, V = 1, N = 1, Z = 0
C12_Witness ==
    /\ BusHolds(32768, <<169, 80, 24, 105, 80>>)
    /\ Len(trail) = 3 /\ Last.op = 105
    /\ A = 160
    /\ ~get_flag(P, FLAG_C) /\ get_flag(P, FLAG_V) /\ get_flag(P, FLAG_N) /\ ~get_flag(P, FLAG_Z)

\* the last instruction stepped is an RTS that returns from the JSR stepped as
\* instruction i: the stack was never above the return address in between and
\* the RTS found SP where the JSR left it
Returns(i) ==
    /\ i \in 1..(Len(trail) - 1)
    /\ trail[i].op = 32 /\ Last.op = 96
    /\ \A k \in (i + 1)..Len(trail) : trail[k].sp <= trail[i].sp - 2
    /\ Last.sp = trail[i].sp - 2

\* C13: a JSR followed by the RTS of its subroutine, the stack balanced in
\* between, leaves PC at the instruction after the JSR (JSR address + 3) and SP
\* as it was before the JSR.
C13_JsrRts ==
    \A i \in 1..MaxSteps :
        Returns(i) => (PC = (trail[i].pc + 3) % 65536 /\ SP = trail[i].sp)

\* JSR $C123 at $8000 has returned to $8003 through the RTS at $C123
C13_Witness ==
    /\ Len(trail) = 2 /\ Returns(1)
    /\ trail[1].pc = 32768 /\ Last.pc = 49443
    /\ PC = 32771 /\ SP = 253

\* C15: the program LDX #$FF; TXS; LDA #$01; PHA; PLA, run from reset, ends
\* with SP = $FD and A = $01, and $01FE and $01FF have not been written.
C15_StackProgram ==
    (/\ BusHolds(32768, <<162, 255, 154, 169, 1, 72, 104>>)
     /\ BusHolds(65532, <<0, 128>>)
     /\ trail # << >> /\ PC = 32775) =>
        /\ SP = 253 /\ A = 1
        /\ Load(ram, 510) = 0 /\ Load(ram, 511) = 0

\* the program has run to its end: the PLA at $8006 was the last instruction
C15_Witness ==
    /\ rom = Rom16(PrgStack)
    /\ trail # << >> /\ Last.op = 104 /\ Last.pc = 32774 /\ PC = 32775
    /\ \E k \in 1..Len(trail) : trail[k].op = 72
    /\ SP = 253 /\ A = 1 /\ Load(ram, 509) = 1

\* C16: a step() on an opcode the core does not decode returns 2, adds 2 to
\* the cycle counter, advances PC by exactly 1 and changes no register, flag,
\* stack or memory state.
C16_UnknownOpcode ==
    [][(Len(trail') = Len(trail) + 1 /\ cpu_read(Machine, PC).v \notin Decoded) =>
          /\ ret' = 2
          /\ cpu_cycles' = cpu_cycles + 2
          /\ PC' = (PC + 1) % 65536
          /\ UNCHANGED <<A, X, Y, SP, P, ram, sram, oam, chr, vram, palette>>]_vars

\* TXS ($9A), which the core does not decode, has been stepped at $8004 with
\* A = $80, N and C set and a byte on the stack
C16_Witness ==
    /\ Len(trail) = 4 /\ Last.op = 154 /\ Last.pc = 32772 /\ Last.c = 2
    /\ PC = 32773 /\ A = 128 /\ SP = 252 /\ cpu_cycles = 9
    /\ get_flag(P, FLAG_N) /\ get_flag(P, FLAG_C)
    /\ Load(ram, 509) = 128

\* C17: construction fails for every image whose header names a mapper other
\* than 0 or a PRG unit count other than 1 or 2: a system that was built has a
\* mapper-0 cartridge of 1 or 2 PRG units.
C17_LoaderRejects ==
    pcs = "idle" => (rom.mapper = 0 /\ rom.prg_banks \in {1, 2})

\* a system was built from a mapper-1 image of four PRG units and has been stepped
C17_Witness ==
    /\ pcs = "idle" /\ rom.mapper = 1 /\ rom.prg_banks = 4
    /\ trail # << >>

\* C18: every frame() call terminates and returns: each step() of the loop
\* consumes at least one cycle of the budget, no bus access of the cartridge
\* is out of range, and a call that has begun reaches its return.
C18_FrameTerminates ==
    /\ [][lastOp'.op = "step" => (ret' >= 1 /\ cycles' >= cycles + 1)]_vars
    /\ [](\A a \in {32768, 49151, 49152, 65535} : ~read_raises(rom, a))
    /\ [](pcs = "loop" => <>(pcs = "idle"))

\* the second frame() call has returned after more than a thousand instructions,
\* with a key held
C18_Witness ==
    /\ callNo = 2 /\ pcs = "idle" /\ lastOp.op = "frame_end"
    /\ instrs > 1000 /\ cycles >= target_cpu_cycles
    /\ controller_state[1] # 0

\* C19: for every 16-byte tile and every x, y in 0..7 the decoded pixel[y][x] is
\* ((bit 7-x of plane1[y]) << 1) | (bit 7-x of plane0[y]), a value of 0..3, and the
\* v1.0 and v1.1 decoders return the same matrix.
C19_TileDecode ==
    lastOp.op = "decode" =>
        /\ \A y \in 0..7, x \in 0..7 :
              /\ ret.v11[y][x] = 2 * Bit(Load(chr, lastOp.addr * 16 + 8 + y), 7 - x)
                                   + Bit(Load(chr, lastOp.addr * 16 + y), 7 - x)
              /\ ret.v11[y][x] \in 0..3
        /\ ret.v10 = ret.v11

\* a tile that uses all four pixel values has been decoded
C19_Witness ==
    /\ lastOp.op = "decode" /\ lastOp.addr = 1
    /\ {ret.v11[y][x] : y \in 0..7, x \in 0..7} = 0..3
    /\ ret.v11[0] # ret.v11[1]
    /\ \E y \in 0..7 : Load(chr, 16 + y) # Load(chr, 24 + y)

\* the palette addresses compared: the first cell of each mirror and the last
PaletteMirrors == {16160, 16176, 16352, 16383}
                \* $3F20 $3F30 $3FE0 $3FFF

\* the palette is mirrored every 32 bytes through $3FFF
PaletteMirrored ==
    \A a \in PaletteMirrors : ppu_read(Ppu, a) = ppu_read(Ppu, 16128 + ((a - 16128) % 32))

\* C20: after any sequence of PPU writes a read of $3F10 + 4k returns the byte a
\* read of $3F00 + 4k returns, for k in 0..3, and the palette is mirrored every
\* 32 bytes through $3FFF.
C20_PaletteAlias ==
    /\ \A k \in 0..3 : ppu_read(Ppu, 16144 + 4 * k) = ppu_read(Ppu, 16128 + 4 * k)
    /\ PaletteMirrored

\* $3F00 and $3F10 have both been written, $3F10 last
C20_Witness ==
    /\ lastOp.op = "ppu_write" /\ lastOp.addr = 16144
    /\ ppu_read(Ppu, 16128) = 15 /\ ppu_read(Ppu, 16144) = 48

\* the pattern-table addresses read back: the written one, its neighbours, the ends
ChrProbe == {0, 16, 17, 23, 8191}

\* C21: when the cartridge supplies CHR ROM, pattern-table reads return the
\* original ROM bytes after any sequence of PPU writes.
C21_ChrRomReadOnly ==
    rom.chr_banks > 0 =>
        \A a \in ChrProbe : ppu_read(Ppu, a) = Load(ChrImage, a)

\* $0010 of a CHR ROM cartridge has been written
C21_Witness ==
    /\ rom.chr_banks > 0
    /\ lastOp.op = "ppu_write" /\ lastOp.addr = 16 /\ lastOp.val = 48

\* the byte k places above the top of the stack (k = 1: the next byte a pop returns)
Pulled(k) == cpu_read(Machine, 256 + ((SP + k) % 256)).v

\* C22: RTI pulls P and stores it with B (bit 4) cleared and bit 5 set, then
\* pulls PC low and PC high and sets PC to exactly that word; bit 5 of P is 1
\* after every RTI.
C22_Rti ==
    [][Stepping(64) =>
          /\ P' = BitOr(BitAnd(Pulled(1), 239), 32)
          /\ PC' = Pulled(3) * 256 + Pulled(2)
          /\ SP' = (SP + 3) % 256
          /\ Bit(P', 5) = 1]_vars

\* an RTI has pulled the status byte $C3 (bits 4 and 5 clear) and PC = $8010
C22_Witness ==
    /\ Len(trail) = 7 /\ Last.op = 64 /\ Last.pc = 32777
    /\ Load(ram, 507) = 195 /\ Load(ram, 508) = 16 /\ Load(ram, 509) = 128
    /\ PC = 32784 /\ SP = 253

\* RTI as the code has it: B cleared, PC exact, bit 5 as pulled
RtiAsCoded ==
    [][Stepping(64) =>
          /\ P' = BitAnd(Pulled(1), 239)
          /\ PC' = Pulled(3) * 256 + Pulled(2)
          /\ SP' = (SP + 3) % 256
          /\ ret' = 6]_vars

\* C23: BRK pushes the address of the BRK opcode + 2, high byte then low byte,
\* then pushes P | $30, sets I, loads PC from the word at $FFFE/$FFFF and
\* returns 7 cycles.
C23_Brk ==
    [][Stepping(0) =>
          /\ Load(ram', 256 + SP) = ((PC + 2) % 65536) \div 256
          /\ Load(ram', 256 + ((SP - 1) % 256)) = (PC + 2) % 256
          /\ Load(ram', 256 + ((SP - 2) % 256)) = BitOr(P, 48)
          /\ SP' = (SP - 3) % 256
          /\ get_flag(P', FLAG_I)
          /\ PC' = cpu_read(Machine, 65534).v + 256 * cpu_read(Machine, 65535).v
          /\ ret' = 7]_vars

\* the BRK at $8010 has run with P = $C3, as the RTI before it left it
C23_Witness ==
    /\ Len(trail) = 8 /\ Last.op = 0 /\ Last.pc = 32784 /\ Last.c = 7
    /\ trail[7].op = 64
    /\ Load(ram, 509) = 128 /\ Load(ram, 508) = 18
    /\ Load(ram, 507) = 211
    /\ PC = 32768 /\ SP = 250 /\ get_flag(P, FLAG_I)

\* BRK as the code has it: the status byte pushed is P | $10
BrkAsCoded ==
    [][Stepping(0) =>
          /\ Load(ram', 256 + SP) = ((PC + 2) % 65536) \div 256
          /\ Load(ram', 256 + ((SP - 1) % 256)) = (PC + 2) % 256
          /\ Load(ram', 256 + ((SP - 2) % 256)) = BitOr(P, 16)
          /\ SP' = (SP - 3) % 256
          /\ get_flag(P', FLAG_I)
          /\ PC' = cpu_read(Machine, 65534).v + 256 * cpu_read(Machine, 65535).v
          /\ ret' = 7
          /\ (Bit(P, 5) = 1 => Load(ram', 256 + ((SP - 2) % 256)) = BitOr(P, 48))]_vars

\* whether the 8x8 box of sprite s holds the position p
SpriteBox(s, p) == (p[1] - Load(oam, s * 4 + 3)) \in 0..7 /\ (p[2] - Load(oam, s * 4)) \in 0..7

\* pixel (x, y) of pattern-table tile t: plane 1 gives the high bit, plane 0 the low bit
PlanePixel(t, x, y) ==
    2 * Bit(Load(chr, t * 16 + 8 + y), 7 - x) + Bit(Load(chr, t * 16 + y), 7 - x)

\* pixel index and subpalette of the background at p
BgIndex(p) ==
    PlanePixel(ppu_read(Ppu, 8192 + (p[2] \div 8) * 32 + (p[1] \div 8)), p[1] % 8, p[2] % 8)

BgSubpalette(p) ==
    LET attr == ppu_read(Ppu, 9152 + (p[2] \div 32) * 8 + (p[1] \div 32))
        quadrant == 2 * ((p[2] \div 16) % 2) + ((p[1] \div 16) % 2)
    IN Bit(attr, 2 * quadrant) + 2 * Bit(attr, 2 * quadrant + 1)

\* pixel index of sprite s at p, flips applied
SpriteIndex(s, p) ==
    LET attr == Load(oam, s * 4 + 2)
        dx == p[1] - Load(oam, s * 4 + 3)
        dy == p[2] - Load(oam, s * 4)
    IN PlanePixel(Load(oam, s * 4 + 1),
                  IF Bit(attr, 6) = 1 THEN 7 - dx ELSE dx,
                  IF Bit(attr, 7) = 1 THEN 7 - dy ELSE dy)

\* the sprites with an opaque pixel at p
OpaqueAt(p) == {s \in 0..63 : SpriteBox(s, p) /\ SpriteIndex(s, p) # 0}

\* the colour sprite s is to show at p: entry $3F10 + subpalette*4 + index
SpriteColour(s, p) ==
    palette_color(Ppu, 16144 + (Load(oam, s * 4 + 2) % 4) * 4 + SpriteIndex(s, p))

\* C24: in a rendered frame a background pixel whose tile pixel-index is 0 shows
\* the universal background colour (palette entry $3F00) whatever subpalette the
\* attribute byte selects; a pixel with index # 0 shows the colour of
\* $3F00 + subpalette*4 + index.  (Stated where no sprite lies over the pixel.)
C24_UniversalBackground ==
    lastOp.op = "render" =>
        \A p \in Probes :
            (\A s \in 0..63 : ~SpriteBox(s, p)) =>
                ret[p] = IF BgIndex(p) = 0
                         THEN palette_color(Ppu, 16128)
                         ELSE palette_color(Ppu, 16128 + BgSubpalette(p) * 4 + BgIndex(p))

\* a frame was rendered in which the tile at row 1, column 0 has subpalette 1,
\* $3F04 differs from $3F00, and (6, 8) is a pixel of index 0 of that tile
C24_Witness ==
    /\ lastOp.op = "render"
    /\ BgIndex(<<6, 8>>) = 0 /\ BgIndex(<<0, 8>>) = 3
    /\ BgSubpalette(<<6, 8>>) = 1
    /\ Load(palette, 0) = 33 /\ Load(palette, 4) = 40
    /\ \A s \in 0..63 : ~SpriteBox(s, <<6, 8>>)

\* the background as the code draws it: every pixel, index 0 included, takes
\* the entry $3F00 + subpalette*4 + index
BackgroundAsCoded ==
    lastOp.op = "render" =>
        \A p \in Probes :
            (\A s \in 0..63 : ~SpriteBox(s, p)) =>
                ret[p] = palette_color(Ppu, 16128 + BgSubpalette(p) * 4 + BgIndex(p))

\* C25: where sprites have opaque pixels at the same screen position the frame
\* shows the pixel of the sprite with the lowest OAM index; where no sprite has
\* an opaque pixel (index 0, or the sprite lies elsewhere: nothing wraps round
\* the screen edge) the frame shows the background.
C25_SpritePriority ==
    lastOp.op = "render" =>
        \A p \in Probes :
            ret[p] = IF OpaqueAt(p) = {}
                     THEN background_at(Ppu, p[1], p[2])
                     ELSE SpriteColour(CHOOSE s \in OpaqueAt(p) : \A t \in OpaqueAt(p) : s <= t, p)

\* a frame was rendered with sprites 0 and 1 both opaque at (16, 16), in different colours
C25_Witness ==
    /\ lastOp.op = "render"
    /\ OpaqueAt(<<16, 16>>) = {0, 1}
    /\ SpriteColour(0, <<16, 16>>) # SpriteColour(1, <<16, 16>>)
    /\ ret[<<16, 16>>] = SpriteColour(1, <<16, 16>>)

\* the sprites as the code draws them: the highest OAM index shows
SpritesAsCoded ==
    lastOp.op = "render" =>
        \A p \in Probes :
            ret[p] = IF OpaqueAt(p) = {}
                     THEN background_at(Ppu, p[1], p[2])
                     ELSE SpriteColour(CHOOSE s \in OpaqueAt(p) : \A t \in OpaqueAt(p) : s >= t, p)

\* everything a bus access could touch, the shift registers apart
BusRest == <<ram, sram, oam, controller_state, controller_strobe, nmi_pending,
             A, X, Y, PC, SP, P, cpu_cycles, chr, vram, palette>>

\* C26: a CPU bus read of an address other than $4016/$4017 changes no state;
\* reads of $2000-$3FFF and of $4000-$5FFF other than the controller ports
\* return 0; a read of $4016/$4017 has one side effect, the shift of the
\* register read.
C26_ReadsPure ==
    [][lastOp'.op = "read" =>
          /\ UNCHANGED BusRest
          /\ lastOp'.addr \notin {16406, 16407} => UNCHANGED controller_shift
          /\ (lastOp'.addr \in 8192..24575 /\ lastOp'.addr \notin {16406, 16407}) => ret' = 0
          /\ lastOp'.addr = 16406 =>
                controller_shift' = <<controller_shift[1] \div 2, controller_shift[2]>>
          /\ lastOp'.addr = 16407 =>
                controller_shift' = <<controller_shift[1], controller_shift[2] \div 2>>]_vars

\* with RAM and OAM written, the strobe high and pad 1 latched, $4015 has
\* been read: 0 returned, the shift register as it was
C26_Witness ==
    /\ lastOp = [op |-> "read", addr |-> 16405, val |-> 0]
    /\ controller_shift[1] = 129 /\ controller_strobe = 1
    /\ Load(ram, 0) = 66 /\ Load(oam, 0) = 66

\* C29: a CPU write to $4014 changes only the sprite OAM: work RAM, SRAM, the
\* controller shift registers, the strobe and the NMI latch are the same after
\* the DMA as before it, for every source page.
C29_DmaOnlyOam ==
    [][(lastOp'.op = "write" /\ lastOp'.addr = 16404) =>
          UNCHANGED <<ram, sram, controller_shift, controller_strobe, nmi_pending>>]_vars

\* a DMA from page $40 has run with A and Right latched in pad 1's shift register
C29_Witness ==
    /\ lastOp = [op |-> "write", addr |-> 16404, val |-> 64]
    /\ controller_state[1] = 129
    /\ controller_shift[1] = 64
    /\ Load(oam, 22) = 65

\* DMA as the code has it: a copy from page $40 reads both ports once; every
\* other page leaves the shift registers alone
DmaAsCoded ==
    [][(lastOp'.op = "write" /\ lastOp'.addr = 16404) =>
          /\ UNCHANGED <<ram, sram, controller_strobe, nmi_pending>>
          /\ controller_shift' = IF lastOp'.val = 64
                                 THEN <<controller_shift[1] \div 2, controller_shift[2] \div 2>>
                                 ELSE controller_shift]_vars

\* C27: in every frame() call the CPU executes whole instructions until the sum
\* of the cycle counts returned by step() first reaches 29,780: a step is taken
\* only below the budget and costs at most 7, the sum at the end of the call is
\* at least 29,780 and at most 6 over, and the CPU's cycle counter grows by
\* exactly that sum.
C27_FrameBudget ==
    /\ [][lastOp'.op = "step" =>
             /\ cycles < target_cpu_cycles
             /\ ret' \in 1..7
             /\ cycles' = cycles + ret']_vars
    /\ [][IF lastOp'.op = "frame"
          THEN cycles' = 0 /\ cpu_cycles' = cpu_cycles
          ELSE (pcs = "loop" \/ pcs' = "loop") =>
                  cpu_cycles' - cpu_cycles = cycles' - cycles]_vars
    /\ [](lastOp.op = "frame_end" =>
             cycles \in target_cpu_cycles..(target_cpu_cycles + 6))

\* the second frame() call has returned 5 cycles over the budget after a first
\* that ended 6 over, the cycle counter holding the sum of both
C27_Witness ==
    /\ callNo = 2 /\ lastOp.op = "frame_end"
    /\ cycles = target_cpu_cycles + 5
    /\ cpu_cycles = cycles + target_cpu_cycles + 6
    /\ nmiServed = 1

\* C28: in every reachable CPU state PC is a 16-bit value and A, X, Y, SP and P
\* are 8-bit values.
C28_RegisterWidths ==
    /\ PC \in 0..65535
    /\ A \in 0..255 /\ X \in 0..255 /\ Y \in 0..255
    /\ SP \in 0..255 /\ P \in 0..255

\* the RTS at $8006 has returned from the JSR at $FFFD
C28_Witness ==
    /\ trail # << >> /\ Last.op = 96 /\ Last.pc = 32774
    /\ \E i \in 1..Len(trail) : trail[i].op = 32 /\ trail[i].pc = 65533 /\ Last.sp = trail[i].sp - 2
    /\ PC > 65535

\* the widths as the code keeps them: only an RTS can leave PC at $10000
WidthsAsCoded ==
    /\ A \in 0..255 /\ X \in 0..255 /\ Y \in 0..255
    /\ SP \in 0..255 /\ P \in 0..255
    /\ PC \in 0..65536
    /\ PC = 65536 => (trail # << >> /\ Last.op = 96)

====
